---------------------------- MODULE Spec2Model ----------------------------
(***************************************************************************)
(* A model of the lineage-graph pipeline of the Tracil backend             *)
(* (backend/services/llm_lineage_define.py and the /analyze-variable       *)
(* entry point of backend/main.py).                                        *)
(*                                                                         *)
(* Ten specifications share this module:                                   *)
(*   SpecNorm      the graph normalizer _validate_and_fix_graph applied    *)
(*                 once and then again to its own output;                  *)
(*   SpecChunk     the chunker _chunk_text, one loop iteration per step;   *)
(*   Spec          one /analyze-variable request, from routing to the      *)
(*                 value returned to the caller;                           *)
(*   SpecRetrieve  the ranking and cut of _retrieve;                       *)
(*   SpecParse     the recovery of _parse_llm_json;                        *)
(*   SpecRetry     the loop of _retry;                                     *)
(*   SpecRoute     the dispatch on the dataset and the display mode;       *)
(*   SpecEmbed     two builds inside _use_embed_model;                     *)
(*   SpecEvidence  the sessions and evidence the rounds of one request     *)
(*                 read while uploads arrive;                              *)
(*   SpecMerge     _merge_graphs on a normalized base graph.               *)
(*                                                                         *)
(* Strings whose characters the code inspects (node ids, targets) are      *)
(* sequences of one-character strings, so that strip(), upper(), lower()   *)
(* and the regular expressions are computed.  Strings the code only tests  *)
(* against literals (types, labels, explanations) are TLA+ strings.        *)
(***************************************************************************)
EXTENDS Integers, Sequences, FiniteSets, TLC

VARIABLES
    npc,      \* SpecNorm: "in" | "once" | "twice"
    g0,       \* SpecNorm: the graph given to the normalizer
    g1,       \* SpecNorm: _validate_and_fix_graph(g0)
    g2,       \* SpecNorm: _validate_and_fix_graph(g1)
    cpc,      \* SpecChunk: "loop" | "done"
    cText,    \* SpecChunk: the text argument of _chunk_text
    cMax,     \* SpecChunk: max_chars
    cOverlap, \* SpecChunk: overlap
    ci,       \* SpecChunk: the cursor i
    cChunks,  \* SpecChunk: the list chunks
    pc,       \* Spec: where the request is (see the actions of Spec)
    payload,  \* Spec: the request body [dataset, variable]
    env,      \* Spec: what the process finds: API key, session, evidence
    kind,     \* Spec: the builder that runs: variable | endpoint | display | cell
    ds,       \* Spec: the dataset after routing
    var,      \* Spec: the variable / term / display spec after routing
    stage,    \* Spec: the model call in progress: base | backtrace | repair
    llm,      \* Spec: _chat_call / _retry: the model asked and the tries made
    raw,      \* Spec: the parsed answer of the last model call
    appended, \* Spec: the builder appended a node for the target
    out,      \* Spec: the graph the builder holds
    bres,     \* Spec: how the builder ended: none | returned | raised
    exc,      \* Spec: the message of the exception raised, if any
    resp,     \* Spec: what analyze_variable returned
    rpc,      \* SpecRetrieve: "in" | "filtered" | "done"
    rChunks,  \* SpecRetrieve: the chunks argument of _retrieve
    rQuery,   \* SpecRetrieve: the query argument
    rK,       \* SpecRetrieve: the argument k
    rKept,    \* SpecRetrieve: the chunks after _prefilter_chunks, as positions in rChunks
    rOut,     \* SpecRetrieve: the chunks returned, as positions in rChunks
    ppc,      \* SpecParse: "in" | "raw" | "blob" | "closed" | "done"
    pJ,       \* SpecParse: the value the text was written from
    pForm,    \* SpecParse: how the text was written from it
    pS,       \* SpecParse: the argument s of _parse_llm_json
    pRaw,     \* SpecParse: raw
    pBlob,    \* SpecParse: blob, then blob2
    pOut,     \* SpecParse: what _parse_llm_json returned or raised
    tpc,      \* SpecRetry: "loop" | "after" | "returned" | "raised"
    tI,       \* SpecRetry: the iterations of the for loop begun and left
    tDelay,   \* SpecRetry: delay, in tenths of a second
    tLast,    \* SpecRetry: last
    tCalls,   \* SpecRetry: how each call of fn ended, in order
    tWaits,   \* SpecRetry: the arguments of time.sleep, in order
    tOut,     \* SpecRetry: what _retry returned or raised
    upc,      \* SpecRoute: "entry" | "unified" | "table" | "done"
    uDs,      \* SpecRoute: the dataset label ds
    uVar,     \* SpecRoute: the target var
    uSess,    \* SpecRoute: the session: its JSON files and its evidence texts
    uRan,     \* SpecRoute: the builders called, in order
    uPath,    \* SpecRoute: the path of the table builder: cell | display
    uMode,    \* SpecRoute: the mode of the display path
    EMBED_MODEL, \* SpecEmbed: the module global EMBED_MODEL
    bpc,      \* SpecEmbed: where each build is in its  with _use_embed_model(...)
    bArg,     \* SpecEmbed: the embed_model argument of each build
    bTmp,     \* SpecEmbed: tmp_model of each build's _use_embed_model
    bOld,     \* SpecEmbed: old of each build's _use_embed_model
    bUsed,    \* SpecEmbed: the model= of each build's embeddings.create calls, in order
    dirs,     \* SpecEvidence: the session_* directories, the last modified last
    vpc,      \* SpecEvidence: "latest" | "collect" | "retrieve" | "next" | "done"
    vKind,    \* SpecEvidence: the builder: variable | cell
    vRound,   \* SpecEvidence: the round: base | backtrace | repair
    vSess,    \* SpecEvidence: sess of the round, as a position in dirs
    vRes,     \* SpecEvidence: what the round's collector returned or raised
    vLog,     \* SpecEvidence: for each round that built a prompt: its session and chunks
    vEnd,     \* SpecEvidence: how the request ended: returned | raised
    vUploads, \* SpecEvidence: the uploads made while the request runs
    mpc,      \* SpecMerge: "in" | "base" | "merged"
    mRaw,     \* SpecMerge: the graph a builder assembled from the base answer
    mBase,    \* SpecMerge: base, the normalized mRaw
    mAug,     \* SpecMerge: aug, the graph of an augmentation answer
    mOut      \* SpecMerge: _merge_graphs(base, aug)

normVars  == <<npc, g0, g1, g2>>
chunkVars == <<cpc, cText, cMax, cOverlap, ci, cChunks>>
reqVars   == <<payload, env>>
retrVars  == <<rpc, rChunks, rQuery, rK, rKept, rOut>>
parseVars == <<ppc, pJ, pForm, pS, pRaw, pBlob, pOut>>
retryVars == <<tpc, tI, tDelay, tLast, tCalls, tWaits, tOut>>
routeVars == <<upc, uDs, uVar, uSess, uRan, uPath, uMode>>
embedVars == <<EMBED_MODEL, bpc, bArg, bTmp, bOld, bUsed>>
evidVars  == <<dirs, vpc, vKind, vRound, vSess, vRes, vLog, vEnd, vUploads>>
mergeVars == <<mpc, mRaw, mBase, mAug, mOut>>
moreVars  == <<embedVars, evidVars, mergeVars>>
pipeVars  == <<pc, reqVars, kind, ds, var, stage, llm, raw, appended, out, bres, exc, resp>>
oldVars   == <<normVars, chunkVars, pipeVars, retrVars, parseVars, retryVars, routeVars>>

-----------------------------------------------------------------------------
(* Characters and Python's str methods.                                    *)

LowerAlpha == <<"a","b","c","d","e","f","g","h","i","j","k","l","m",
                "n","o","p","q","r","s","t","u","v","w","x","y","z">>
UpperAlpha == <<"A","B","C","D","E","F","G","H","I","J","K","L","M",
                "N","O","P","Q","R","S","T","U","V","W","X","Y","Z">>
Digits     == {"0","1","2","3","4","5","6","7","8","9"}
Whitespace == {" ", "\t", "\n"}

UpperLetters == {UpperAlpha[i] : i \in 1..26}
LowerLetters == {LowerAlpha[i] : i \in 1..26}

\* the characters that occur in the strings of the model
Alphabet == UpperLetters \cup LowerLetters \cup Digits \cup Whitespace
            \cup {".", "|", "_", "-", "?", "\\0"}

IsUpperLetter(c) == c \in UpperLetters
IsLowerLetter(c) == c \in LowerLetters

\* the upper-case and lower-case form of each character
UpperOf == [c \in Alphabet |->
               IF c \in LowerLetters
               THEN UpperAlpha[CHOOSE i \in 1..26 : LowerAlpha[i] = c] ELSE c]
LowerOf == [c \in Alphabet |->
               IF c \in UpperLetters
               THEN LowerAlpha[CHOOSE i \in 1..26 : UpperAlpha[i] = c] ELSE c]

UpperCh(c) == UpperOf[c]
LowerCh(c) == LowerOf[c]

\* str.upper() and str.lower()
Upper(s) == [i \in 1..Len(s) |-> UpperCh(s[i])]
Lower(s) == [i \in 1..Len(s) |-> LowerCh(s[i])]

\* str.strip()
Strip(s) ==
    LET keep == {i \in 1..Len(s) : s[i] \notin Whitespace}
    IN  IF keep = {} THEN <<>>
        ELSE LET lo == CHOOSE i \in keep : \A j \in keep : i <= j
                 hi == CHOOSE i \in keep : \A j \in keep : j <= i
             IN  SubSeq(s, lo, hi)

\* sub in s
Contains(s, sub) ==
    \E k \in 0..(Len(s) - Len(sub)) : SubSeq(s, k + 1, k + Len(sub)) = sub

\* s.startswith(pre)
StartsWith(s, pre) == Len(s) >= Len(pre) /\ SubSeq(s, 1, Len(pre)) = pre

\* [A-Z0-9] and [A-Z0-9_]
IsUpAlnum(c) == IsUpperLetter(c) \/ c \in Digits
IsUpWord(c)  == IsUpAlnum(c) \/ c = "_"

\* re.match(r"^AD[A-Z0-9]{2,}\.[A-Z0-9_]+$", up)
MatchAdamVar(up) ==
    \E p \in 5..(Len(up) - 1) :
        /\ up[1] = "A" /\ up[2] = "D"
        /\ \A i \in 3..(p - 1) : IsUpAlnum(up[i])
        /\ up[p] = "."
        /\ \A i \in (p + 1)..Len(up) : IsUpWord(up[i])

\* re.match(r"^[A-Z]{2}\.[A-Z0-9_]+$", up)
MatchSdtmVar(up) ==
    /\ Len(up) >= 4
    /\ IsUpperLetter(up[1]) /\ IsUpperLetter(up[2])
    /\ up[3] = "."
    /\ \A i \in 4..Len(up) : IsUpWord(up[i])

-----------------------------------------------------------------------------
(* The strings of the model.                                               *)

IdAdslAge   == <<"A","D","S","L",".","A","G","E">>
IdAdslAgeLc == <<"a","d","s","l",".","a","g","e">>
IdAdslAgeSp == <<" ","A","D","S","L",".","A","G","E">>
IdDmAge     == <<"D","M",".","A","G","E">>
IdAdsl      == <<"A","D","S","L">>
IdUsdm      == <<"U","S","D","M">>
NoStr       == <<>>

\* "SDTM." , "AD" , "crf page" , "table" , "|" , "."
LitSdtmDot == <<"S","D","T","M",".">>
LitAD      == <<"A","D">>
LitCrfPage == <<"c","r","f"," ","p","a","g","e">>
LitTable   == <<"t","a","b","l","e">>
LitPROTOCOL == <<"P","R","O","T","O","C","O","L">>
LitCRF     == <<"C","R","F">>
LitUSDM    == <<"U","S","D","M">>

\* A key that a dict does not hold (e.get(k) is None).
Absent == <<"\\0">>

\* x or ""  for a value that may be absent
OrEmpty(x) == IF x = Absent THEN NoStr ELSE x

\* Explanations: the literals of the source, and three a model may send.
ExplNodeDefault == "[reasoned] This node is included based on adjacent evidence and CDISC artifacts."
ExplEdgeDefault == "[reasoned] This connection is inferred from standard mapping and nearby evidence."
ExplVarTarget   == "[general] Explicit node for the requested variable."
ExplEndpointRoot == "[general] Endpoint root added by post-processor."
ExplDisplayNode == "[general] Display node added by post-processor."
ExplCellNode    == "[general] Added explicit target cell node."
ExplDirect      == "[direct] define.xml ItemDef AGE."
ExplUntagged    == "Derived from DM.BRTHDTC."

\* The explanations above that start with "[direct]", "[reasoned]" or "[general]".
TaggedExplanations ==
    { ExplNodeDefault, ExplEdgeDefault, ExplVarTarget, ExplEndpointRoot,
      ExplDisplayNode, ExplCellNode, ExplDirect }

\* (type or "").strip().lower() of the type strings of the model: one is
\* written with a capital and blanks, every other one is already in that form.
TypeNorm(t) == IF t = " Table " THEN "table" ELSE t

\* dataset kinds
LitTlf      == <<"t","l","f">>
LitDisplay  == <<"d","i","s","p","l","a","y">>
LitEndpoint == <<"e","n","d","p","o","i","n","t">>
LitProtocol == <<"p","r","o","t","o","c","o","l">>
LitSoa      == <<"s","o","a">>
DsTableCap  == <<"T","a","b","l","e">>

\* "tlf" in label.lower()  and  "endpoint" in label.lower()
LabelHasTlf(l)      == l \in {"TLF 14.1"}
LabelHasEndpoint(l) == l \in {"Primary endpoint"}

-----------------------------------------------------------------------------
(* Sequence helpers.                                                       *)

Range(s) == {s[i] : i \in 1..Len(s)}

RECURSIVE SelectIdx(_, _, _)
\* the elements s[i], i in order, with i in keep
SelectIdx(s, keep, i) ==
    IF i > Len(s) THEN <<>>
    ELSE (IF i \in keep THEN <<s[i]>> ELSE <<>>) \o SelectIdx(s, keep, i + 1)

-----------------------------------------------------------------------------
(* Graph post-processing.                                                  *)

\* _suggest_type_for_id(nid, dataset_kind)
SuggestTypeForId(nid, dataset_kind) ==
    LET up == Strip(Upper(nid))
        dk == Lower(dataset_kind)
    IN  IF dk \in {LitTable, LitTlf, LitDisplay}
        THEN (IF Contains(up, <<"|">>) THEN "tlf cell" ELSE "tlf display")
        ELSE IF dk \in {LitEndpoint, LitProtocol, LitSoa} THEN "endpoint"
        ELSE IF MatchAdamVar(up) THEN "adam variable"
        ELSE IF StartsWith(up, LitSdtmDot) THEN "sdtm variable"
        ELSE IF MatchSdtmVar(up) THEN "sdtm variable"
        ELSE IF up = LitPROTOCOL THEN "protocol"
        ELSE IF up = LitCRF THEN "crf"
        ELSE IF up = LitUSDM THEN "usdm"
        ELSE "concept"

\* The body of the loop of _canonicalize_types_in_graph: the type of node n.
CanonicalType(n) ==
    LET t   == TypeNorm(n.type)
        nid == Strip(n.id)
        up  == Upper(nid)
    IN  IF t \in {"dataset.variable", "data set variable", "data-variable", "variable"}
        THEN (IF MatchAdamVar(up) THEN "adam variable"
              ELSE IF MatchSdtmVar(up) \/ StartsWith(up, LitSdtmDot) THEN "sdtm variable"
              ELSE n.type)
        ELSE IF t \in {"display", "tlf", "tlf display", "table"} THEN "tlf display"
        ELSE IF t \in {"cell", "tlf cell", "output cell"} THEN "tlf cell"
        ELSE IF t \in {"protocol", "protocol/sap", "sap", "protocol section"}
        THEN "protocol section"
        ELSE IF t \in {"crf", "acrf", "crf page"} THEN "crf page"
        ELSE IF t \in {"adam", "adam variable", "adsl var", "ad a m", "adaml", "adaml variable"}
        THEN (IF Contains(nid, <<".">>) THEN "adam variable" ELSE "adam dataset")
        ELSE IF t \in {"sdtm", "sdtm variable"}
        THEN (IF Contains(nid, <<".">>) \/ MatchSdtmVar(up)
              THEN "sdtm variable" ELSE "sdtm dataset")
        ELSE IF t = "" \/ t \in {"target", "source", "concept"}
        THEN (IF MatchAdamVar(up) THEN "adam variable"
              ELSE IF MatchSdtmVar(up) \/ StartsWith(up, LitSdtmDot) THEN "sdtm variable"
              ELSE IF StartsWith(up, LitAD) /\ ~Contains(up, <<".">>) THEN "adam dataset"
              ELSE IF Contains(Lower(up), LitCrfPage) THEN "crf page"
              ELSE IF Contains(nid, <<"|">>) THEN "tlf cell"
              ELSE IF Contains(Lower(nid), LitTable) \/ LabelHasTlf(n.label) THEN "tlf display"
              ELSE IF LabelHasEndpoint(n.label) THEN "protocol endpoint"
              ELSE n.type)
        ELSE n.type

\* _canonicalize_types_in_graph, on the list of nodes
CanonicalizeTypes(nodes) ==
    [i \in 1..Len(nodes) |-> [nodes[i] EXCEPT !.type = CanonicalType(nodes[i])]]

\* for k, v in n.items(): fill the fields of the kept node that are empty
MergeInto(kept, n) ==
    [ id          |-> kept.id,
      type        |-> IF kept.type = "" THEN n.type ELSE kept.type,
      label       |-> IF kept.label = "" THEN n.label ELSE kept.label,
      explanation |-> IF kept.explanation = "" THEN n.explanation ELSE kept.explanation ]

RECURSIVE DedupeNodesRawId(_, _, _)
\* DedupeNodes keyed on the id as written, not on the stripped id.
DedupeNodesRawId(nodes, i, acc) ==
    IF i > Len(nodes) THEN acc
    ELSE LET n == nodes[i]
         IN  IF Strip(n.id) = NoStr THEN DedupeNodesRawId(nodes, i + 1, acc)
             ELSE IF \E k \in 1..Len(acc) : acc[k].id = n.id
             THEN LET k == CHOOSE k \in 1..Len(acc) : acc[k].id = n.id
                  IN  DedupeNodesRawId(nodes, i + 1,
                                       [acc EXCEPT ![k] = MergeInto(acc[k], n)])
             ELSE DedupeNodesRawId(nodes, i + 1, Append(acc, n))

RECURSIVE DedupeNodes(_, _, _)
\* The de-duplication loop of _validate_and_fix_graph: acc holds node_map's
\* values in the order of `order`; the key of acc[k] is Strip(acc[k].id).
DedupeNodes(nodes, i, acc) ==
    IF i > Len(nodes) THEN acc
    ELSE LET n   == nodes[i]
             nid == Strip(n.id)
         IN  IF nid = NoStr THEN DedupeNodes(nodes, i + 1, acc)
             ELSE IF \E k \in 1..Len(acc) : Strip(acc[k].id) = nid
             THEN LET k == CHOOSE k \in 1..Len(acc) : Strip(acc[k].id) = nid
                  IN  DedupeNodes(nodes, i + 1,
                                  [acc EXCEPT ![k] = MergeInto(acc[k], n)])
             ELSE DedupeNodes(nodes, i + 1, Append(acc, n))

\* FixTypeAndExplanation without the explanation placeholder.
FixTypeOnly(n, dataset_kind) ==
    [n EXCEPT
        !.type = IF TypeNorm(n.type) \in {"", "target", "source"}
                 THEN SuggestTypeForId(Strip(n.id), dataset_kind) ELSE n.type]

\* "Normalize types/explanations" loop of _validate_and_fix_graph
FixTypeAndExplanation(n, dataset_kind) ==
    [n EXCEPT
        !.type = IF TypeNorm(n.type) \in {"", "target", "source"}
                 THEN SuggestTypeForId(Strip(n.id), dataset_kind) ELSE n.type,
        !.explanation = IF n.explanation = "" THEN ExplNodeDefault ELSE n.explanation]

\* e after  if "from" not in e and "source" in e: e["from"] = e.pop("source")
\*          if "to" not in e and "target" in e:   e["to"] = e.pop("target")
RenameKeys(e) ==
    LET mvF == e.from = Absent /\ e.source # Absent
        mvT == e.to = Absent /\ e.target # Absent
    IN  [ from   |-> IF mvF THEN e.source ELSE e.from,
          source |-> IF mvF THEN Absent ELSE e.source,
          to     |-> IF mvT THEN e.target ELSE e.to,
          target |-> IF mvT THEN Absent ELSE e.target,
          explanation |-> e.explanation ]

EdgeFrm(e) == Strip(OrEmpty(RenameKeys(e).from))
EdgeTo(e)  == Strip(OrEmpty(RenameKeys(e).to))

\* node_map's keys
NodeKeys(nodes) == {Strip(nodes[k].id) : k \in 1..Len(nodes)}

\* an edge the "Normalize edges" loop keeps
EdgeKept(e, keys) ==
    /\ EdgeFrm(e) # NoStr /\ EdgeTo(e) # NoStr
    /\ EdgeFrm(e) \in keys /\ EdgeTo(e) \in keys

\* the gap the "Normalize edges" loop appends for an edge it drops (the text
\* of a gap is a list of fragments, so that formatted messages are computed)
GapForDropped(e) ==
    IF EdgeFrm(e) = NoStr \/ EdgeTo(e) = NoStr
    THEN [shape |-> "dict", source |-> Absent, target |-> Absent,
          explanation |-> <<"Dropped an edge because 'from' or 'to' was missing.">>]
    ELSE [shape |-> "dict", source |-> EdgeFrm(e), target |-> EdgeTo(e),
          explanation |-> <<"Removed an edge that referenced an unknown node id.">>]

FixEdge(e) ==
    [RenameKeys(e) EXCEPT
        !.explanation = IF e.explanation = "" THEN ExplEdgeDefault ELSE e.explanation]

RECURSIVE NormalizeEdges(_, _, _)
\* The "Normalize edges" loop: <<edges_fixed, gaps appended>>
NormalizeEdges(edges, keys, i) ==
    IF i > Len(edges) THEN <<(<<>>), (<<>>)>>
    ELSE LET rest == NormalizeEdges(edges, keys, i + 1)
         IN  IF EdgeKept(edges[i], keys)
             THEN << <<FixEdge(edges[i])>> \o rest[1], rest[2] >>
             ELSE << rest[1], <<GapForDropped(edges[i])>> \o rest[2] >>

\* _is_explicit_placeholder(n): "[general]" and "explicit node" and
\* ("requested" or "target") in the lower-cased explanation.  Of the
\* explanations of the model only ExplVarTarget has all three
\* (ExplCellNode reads "explicit target cell node").
IsExplicitPlaceholder(n) == n.explanation \in {ExplVarTarget}

\* used_ids: str(e.get("from")), str(e.get("to")) of the kept edges, unstripped
UsedIds(edgesFixed) ==
    {edgesFixed[k].from : k \in 1..Len(edgesFixed)} \cup
    {edgesFixed[k].to : k \in 1..Len(edgesFixed)}

\* a loop that drops no node
PruneNoOrphans(nodes, edgesFixed) == nodes

\* the "DROP PLACEHOLDER EXPLICIT ORPHANS" loop
PruneOrphans(nodes, edgesFixed) ==
    SelectIdx(nodes,
              {k \in 1..Len(nodes) :
                  ~(nodes[k].id \notin UsedIds(edgesFixed) /\ IsExplicitPlaceholder(nodes[k]))},
              1)

\* _validate_and_fix_graph(graph)
ValidateAndFixGraph(graph) ==
    LET deduped == DedupeNodes(graph.nodes, 1, <<>>)
        fixed   == [k \in 1..Len(deduped) |->
                        FixTypeAndExplanation(deduped[k], Lower(graph.dataset))]
        ne      == NormalizeEdges(graph.edges, NodeKeys(deduped), 1)
        pruned  == PruneOrphans(fixed, ne[1])
    IN  [graph EXCEPT !.nodes = CanonicalizeTypes(pruned),
                      !.edges = ne[1],
                      !.gaps  = graph.gaps \o ne[2]]

-----------------------------------------------------------------------------
(* SpecNorm: the normalizer applied to a graph, and again to its result.   *)

MaxNodes == 2
MaxEdges == 1

Node(i, t, l, x) == [id |-> i, type |-> t, label |-> l, explanation |-> x]

\* Nodes a model response may hold.
NodePool ==
    { Node(IdAdslAge,   "adam variable", "",    ExplDirect),    \* canonical ADaM variable
      Node(IdAdslAgeLc, "adam variable", "",    ExplDirect),    \* the same id in lower case
      Node(IdAdslAgeSp, "",              "Age", ""),            \* the same id after a blank
      Node(IdAdslAge,   "dataset",       "Age in years", ExplUntagged), \* unknown type, no tag
      Node(IdAdslAge,   "target",        "",    ExplVarTarget), \* an explicit placeholder
      Node(IdDmAge,     "sdtm",          "",    ExplUntagged),
      Node(IdDmAge,     " Table ",       "",    ""),
      Node(IdAdsl,      "concept",       "",    ExplDirect),
      Node(IdUsdm,      "",              "Primary endpoint", ExplDirect),
      Node(NoStr,       "adam variable", "",    ExplDirect) }   \* no id

Edge(f, t, s, g, x) == [from |-> f, to |-> t, source |-> s, target |-> g, explanation |-> x]

\* Edges a model response may hold.
EdgePool ==
    { Edge(IdDmAge,     IdAdslAge, Absent,  Absent,    ""),
      Edge(IdDmAge,     IdAdslAgeSp, Absent, Absent,   ExplUntagged), \* blank before the id
      Edge(IdDmAge,     Absent,    Absent,  Absent,    ExplDirect),   \* no "to"
      Edge(Absent,      Absent,    IdDmAge, IdAdslAge, ExplDirect) }  \* source/target keys

ModelGap == [shape |-> "dict", source |-> Absent, target |-> Absent,
             explanation |-> <<"No CRF page found for AGE.">>]

SeqsUpTo(S, n) == UNION {[1..k -> S] : k \in 0..n}

InputGraphs ==
    [ variable : {IdAdslAge},
      dataset  : {IdAdsl, DsTableCap},
      summary  : {<<>>},
      nodes    : SeqsUpTo(NodePool, MaxNodes),
      edges    : SeqsUpTo(EdgePool, MaxEdges),
      gaps     : {<<>>, <<ModelGap>>} ]

EmptyGraph == [variable |-> NoStr, dataset |-> NoStr, summary |-> <<>>,
               nodes |-> <<>>, edges |-> <<>>, gaps |-> <<>>]

\* no answer parsed yet; no value returned yet
NoRaw   == [shape |-> "none"]
Pending == [pending |-> TRUE]

\* _retry not running
LlmIdle == [model |-> "primary", tries |-> 0]

\* the variables of the other specifications, at rest
ChunkIdle ==
    /\ cpc = "idle" /\ cText = <<>> /\ cMax = 0 /\ cOverlap = 0
    /\ ci = 0 /\ cChunks = <<>>

RetrIdle ==
    /\ rpc = "idle" /\ rChunks = <<>> /\ rQuery = NoStr /\ rK = 0
    /\ rKept = <<>> /\ rOut = <<>>

\* _parse_llm_json not called
NoOutcome == [kind |-> "none", val |-> [k |-> "none", v |-> <<>>]]

ParseIdle ==
    /\ ppc = "idle" /\ pJ = [k |-> "none", v |-> <<>>] /\ pForm = ""
    /\ pS = <<>> /\ pRaw = <<>> /\ pBlob = <<>> /\ pOut = NoOutcome

\* _retry not called
RetryIdle ==
    /\ tpc = "idle" /\ tI = 0 /\ tDelay = 0 /\ tLast = "" /\ tCalls = <<>>
    /\ tWaits = <<>> /\ tOut = ""

\* no request being routed
RouteIdle ==
    /\ upc = "idle" /\ uDs = <<>> /\ uVar = <<>>
    /\ uSess = [files |-> <<>>, docs |-> <<>>]
    /\ uRan = <<>> /\ uPath = "" /\ uMode = ""

\* no build inside _use_embed_model
EmbedIdle ==
    /\ EMBED_MODEL = "" /\ bpc = <<>> /\ bArg = <<>> /\ bTmp = <<>>
    /\ bOld = <<>> /\ bUsed = <<>>

\* no request collecting evidence
EvidIdle ==
    /\ dirs = <<>> /\ vpc = "idle" /\ vKind = "" /\ vRound = "" /\ vSess = 0
    /\ vRes = [err |-> FALSE, pairs |-> <<>>] /\ vLog = <<>> /\ vEnd = ""
    /\ vUploads = 0

\* _merge_graphs not called
MergeIdle ==
    /\ mpc = "idle" /\ mRaw = EmptyGraph /\ mBase = EmptyGraph
    /\ mAug = EmptyGraph /\ mOut = EmptyGraph

MoreIdle == EmbedIdle /\ EvidIdle /\ MergeIdle

NormIdle ==
    /\ npc = "idle" /\ g0 = EmptyGraph /\ g1 = EmptyGraph /\ g2 = EmptyGraph

PipeIdle ==
    /\ pc = "idle"
    /\ payload = [dataset |-> NoStr, variable |-> NoStr]
    /\ env = [api_key |-> FALSE, session |-> FALSE, summary |-> FALSE,
              evidence |-> FALSE, ars |-> FALSE]
    /\ kind = "" /\ ds = NoStr /\ var = NoStr
    /\ stage = "base" /\ llm = LlmIdle /\ raw = NoRaw /\ appended = FALSE
    /\ out = EmptyGraph /\ bres = "none" /\ exc = "" /\ resp = Pending

\* only a specification defined further down is running
OldIdle ==
    /\ NormIdle /\ ChunkIdle /\ PipeIdle /\ RetrIdle /\ ParseIdle /\ RetryIdle /\ RouteIdle

InitNorm ==
    /\ npc = "in"
    /\ g0 \in InputGraphs
    /\ g1 = EmptyGraph
    /\ g2 = EmptyGraph
    /\ ChunkIdle
    /\ PipeIdle
    /\ RetrIdle
    /\ ParseIdle
    /\ RetryIdle
    /\ RouteIdle /\ MoreIdle

NormalizeOnce ==
    /\ npc = "in"
    /\ g1' = ValidateAndFixGraph(g0)
    /\ npc' = "once"
    /\ UNCHANGED <<g0, g2, chunkVars, pipeVars, retrVars, parseVars, retryVars, routeVars, moreVars>>

NormalizeAgain ==
    /\ npc = "once"
    /\ g2' = ValidateAndFixGraph(g1)
    /\ npc' = "twice"
    /\ UNCHANGED <<g0, g1, chunkVars, pipeVars, retrVars, parseVars, retryVars, routeVars, moreVars>>

NextNorm == NormalizeOnce \/ NormalizeAgain

vars == <<normVars, chunkVars, pipeVars, retrVars, parseVars, retryVars, routeVars, moreVars>>

SpecNorm == InitNorm /\ [][NextNorm]_vars

-----------------------------------------------------------------------------
(* SpecChunk: _chunk_text, one iteration of its while loop per step.       *)

\* the literal 200 of  (j-k) < 200
NearLineBreak == 200

MaxTextLen   == 4     \* short texts: every text over {a, newline} up to this length
MaxSmallChars == 3    \* max_chars for the short texts: 1..MaxSmallChars
MaxOverlap   == 2     \* overlap: 0..MaxOverlap
MaxChunks    == 6     \* cap on len(chunks), for the runs the loop never leaves

MaxOf(a, b) == IF a >= b THEN a ELSE b
MinOf(a, b) == IF a <= b THEN a ELSE b

\* long texts: one newline at position p (counted from 0), so that the
\* newline can lie 200 or more characters before the boundary
LongLen == NearLineBreak + 3
LongText(p) == [k \in 1..LongLen |-> IF k = p + 1 THEN "\n" ELSE "a"]

ShortTexts == SeqsUpTo({"a", "\n"}, MaxTextLen)

\* text.rfind("\n", i, j): the last k with i <= k < j and text[k] a newline, or -1
RFindNewline(text, i, j) ==
    LET at == {k \in i..(j - 1) : text[k + 1] = "\n"}
    IN  IF at = {} THEN -1 ELSE CHOOSE k \in at : \A m \in at : m <= k

\* the boundary j of the chunk that starts at i
ChunkEnd(text, i, max_chars) ==
    LET n == Len(text)
        j == MinOf(n, i + max_chars)
        k == RFindNewline(text, i, j)
    IN  IF j < n /\ k > -1 /\ (j - k) < NearLineBreak THEN k ELSE j

\* a cursor that steps over the character at the boundary
NextCursorPastBoundary(j, overlap) == j + 1

\* i = max(j-overlap, j)
NextCursor(j, overlap) == MaxOf(j - overlap, j)

\* text[i:j], with the span it was cut from
Slice(text, i, j) == [text |-> SubSeq(text, i + 1, j), from |-> i, to |-> j]

InitChunk ==
    /\ cpc = "loop"
    /\ \/ cText \in ShortTexts /\ cMax \in 1..MaxSmallChars
       \/ cText \in {LongText(0), LongText(1)}
          /\ cMax \in (NearLineBreak - 1)..(NearLineBreak + 2)
    /\ cOverlap \in 0..MaxOverlap
    /\ ci = 0
    /\ cChunks = <<>>
    /\ NormIdle
    /\ PipeIdle
    /\ RetrIdle
    /\ ParseIdle
    /\ RetryIdle
    /\ RouteIdle /\ MoreIdle

\* one pass through the body of  while i < n
ChunkStep ==
    /\ cpc = "loop"
    /\ ci < Len(cText)
    /\ Len(cChunks) < MaxChunks
    /\ LET j == ChunkEnd(cText, ci, cMax)
       IN  /\ cChunks' = Append(cChunks, Slice(cText, ci, j))
           /\ ci' = NextCursor(j, cOverlap)
    /\ UNCHANGED <<cpc, cText, cMax, cOverlap, normVars, pipeVars, retrVars, parseVars, retryVars, routeVars, moreVars>>

\* the loop condition fails: return chunks
ChunkReturn ==
    /\ cpc = "loop"
    /\ ~(ci < Len(cText))
    /\ cpc' = "done"
    /\ UNCHANGED <<cText, cMax, cOverlap, ci, cChunks, normVars, pipeVars, retrVars, parseVars, retryVars, routeVars, moreVars>>

NextChunk == ChunkStep \/ ChunkReturn

SpecChunk == InitChunk /\ [][NextChunk]_vars


-----------------------------------------------------------------------------
(* The builders: the pure parts.                                           *)

IdAge      == <<"A","G","E">>
LitAdam    == <<"a","d","a","m">>
EndpointOS == <<"O","S">>
DisplayT1  == <<"T","-","1">>
CellT1N    == <<"T","-","1","|","n">>
\* the same cell spec in another letter case, as a model may write it
CellT1NCase == <<"t","-","1","|","N">>

\* a + "." + b
Dot(a, b) == a \o <<".">> \o b

IsLowAlnum(c) == c \in LowerLetters \cup Digits

RECURSIVE NormFrom(_, _)
\* re.sub(r"[^a-z0-9]+", " ", s) from position i on
NormFrom(s, i) ==
    IF i > Len(s) THEN <<>>
    ELSE IF IsLowAlnum(s[i]) THEN <<s[i]>> \o NormFrom(s, i + 1)
    ELSE IF i > 1 /\ ~IsLowAlnum(s[i - 1]) THEN NormFrom(s, i + 1)
    ELSE <<" ">> \o NormFrom(s, i + 1)

\* _norm(s)
Norm(s) == Strip(NormFrom(Lower(s), 1))

\* _is_cell_spec(s)
IsCellSpec(s) == Contains(s, <<"|">>)

\* a gap that is a plain string, given as its fragments
StrGap(text) == [shape |-> "str", source |-> Absent, target |-> Absent,
                 explanation |-> text]

\* tests of _auto_prefix_adam_vars on the lower-cased type
IsAdamDatasetType(t) ==
    t \in {"adam dataset", "adam data set", "adamdata set", "adaml dataset", "adml dataset"}
TypeHasDataset(t) ==
    t \in {"dataset", "adam dataset", "sdtm dataset", "adaml dataset", "adml dataset"}
IsAdamVarType(t) == t \in {"adam variable", "adaml variable"}

\* re.match(r"^[A-Z0-9_]+$", nid)
MatchBareVar(nid) == nid # NoStr /\ \A i \in 1..Len(nid) : IsUpWord(nid[i])

\* ds_ids of _auto_prefix_adam_vars
AdamDatasetIds(nodes) ==
    { nodes[k].id : k \in { k \in 1..Len(nodes) :
          /\ nodes[k].id # NoStr
          /\ \/ IsAdamDatasetType(nodes[k].type)
             \/ /\ StartsWith(Upper(nodes[k].id), LitAD)
                /\ ~Contains(nodes[k].id, <<".">>)
                /\ TypeHasDataset(nodes[k].type) } }

\* edge_map.get(nid): the from of the last edge from a dataset to nid
EdgeMapGet(edges, dsIds, nid) ==
    LET hits == { k \in 1..Len(edges) :
                     /\ OrEmpty(edges[k].from) \in dsIds
                     /\ OrEmpty(edges[k].to) = nid }
    IN  IF hits = {} \/ nid = NoStr THEN NoStr
        ELSE edges[CHOOSE k \in hits : \A m \in hits : m <= k].from

\* the id _auto_prefix_adam_vars gives to node n
PrefixedId(n, edges, dsIds) ==
    LET viaEdge == EdgeMapGet(edges, dsIds, n.id)
        dflt    == IF Cardinality(dsIds) = 1 THEN CHOOSE d \in dsIds : TRUE ELSE NoStr
        dsid    == IF viaEdge # NoStr THEN viaEdge ELSE dflt
    IN  IF IsAdamVarType(n.type) /\ ~Contains(n.id, <<".">>) /\ MatchBareVar(n.id)
           /\ dsid # NoStr
        THEN Dot(dsid, n.id) ELSE n.id

\* _auto_prefix_adam_vars(graph)
AutoPrefixAdamVars(graph) ==
    LET dsIds   == AdamDatasetIds(graph.nodes)
        changed == { k \in 1..Len(graph.nodes) :
                        PrefixedId(graph.nodes[k], graph.edges, dsIds) # graph.nodes[k].id }
        NewId(x) == IF \E k \in changed : graph.nodes[k].id = x
                    THEN PrefixedId(graph.nodes[CHOOSE k \in changed :
                                         /\ graph.nodes[k].id = x
                                         /\ \A m \in changed :
                                               graph.nodes[m].id = x => m <= k],
                                    graph.edges, dsIds)
                    ELSE x
    IN  [graph EXCEPT
            !.nodes = [k \in 1..Len(graph.nodes) |->
                          [graph.nodes[k] EXCEPT
                              !.id = PrefixedId(graph.nodes[k], graph.edges, dsIds)]],
            !.edges = [k \in 1..Len(graph.edges) |->
                          [graph.edges[k] EXCEPT !.from = NewId(@), !.to = NewId(@)]]]

\* _has_sdtm_nodes(nodes)
HasSdtmNodes(nodes) ==
    \E k \in 1..Len(nodes) :
        \/ nodes[k].type \in {"sdtm", "sdtm variable", "sdtm dataset"}
        \/ StartsWith(Upper(nodes[k].id), LitSdtmDot)
        \/ MatchSdtmVar(Upper(nodes[k].id))

\* _extract_adam_vars_from_nodes(nodes), as a set
ExtractAdamVars(nodes) ==
    { nodes[k].id : k \in { k \in 1..Len(nodes) :
          nodes[k].type = "adam variable" /\ nodes[k].id # NoStr } }

\* _merge_graphs(base, aug)
MergeGraphs(base, aug) ==
    ValidateAndFixGraph(
        [ variable |-> IF base.variable # NoStr THEN base.variable ELSE aug.variable,
          dataset  |-> IF base.dataset # NoStr THEN base.dataset ELSE aug.dataset,
          summary  |-> base.summary \o aug.summary,
          nodes    |-> base.nodes \o aug.nodes,
          edges    |-> base.edges \o aug.edges,
          gaps     |-> base.gaps \o aug.gaps ])

\* the SDTM variables _ensure_ars_connectivity finds linked to no ADaM variable
OrphanSdtmVars(graph) ==
    LET Ids(t) == { graph.nodes[k].id : k \in { k \in 1..Len(graph.nodes) :
                                                  graph.nodes[k].type = t } }
        adam  == Ids("adam variable")
        sdtm  == Ids("sdtm variable")
        touch == { graph.edges[k].from : k \in { k \in 1..Len(graph.edges) :
                       graph.edges[k].from \in sdtm /\ graph.edges[k].to \in adam } }
                 \cup
                 { graph.edges[k].to : k \in { k \in 1..Len(graph.edges) :
                       graph.edges[k].to \in sdtm /\ graph.edges[k].from \in adam } }
    IN  IF sdtm = {} \/ adam = {} THEN {} ELSE sdtm \ touch

\* the early returns of _ensure_ars_connectivity
NeedsRepair(graph) ==
    /\ graph.dataset = LitTable
    /\ Contains(graph.variable, <<"|">>)
    /\ OrphanSdtmVars(graph) # {}

\* a backtrace for every graph without SDTM node, with ADaM variables or not
NeedsBacktraceWithoutAdam(graph) ==
    /\ graph.nodes # <<>>
    /\ ~HasSdtmNodes(graph.nodes)

\* the early returns of _augment_backtrace_if_missing_sdtm
NeedsBacktrace(graph) ==
    /\ graph.nodes # <<>>
    /\ ~HasSdtmNodes(graph.nodes)
    /\ ExtractAdamVars(graph.nodes) # {}

\* the builder build_lineage_with_llm_from_session dispatches (dataset, variable) to
KindOf(dataset, variable) ==
    IF Lower(dataset) \in {LitEndpoint, LitProtocol, LitSoa} THEN "endpoint"
    ELSE IF Lower(dataset) \in {LitTable, LitTlf, LitDisplay}
    THEN (IF IsCellSpec(variable) THEN "cell" ELSE "display")
    ELSE "variable"

\* the id of the node each builder makes for its target
TargetId(k, dataset, variable) ==
    CASE k = "variable" -> Upper(Dot(dataset, variable))
      [] k = "endpoint" -> Lower(variable)
      [] OTHER          -> variable

\* the builders' test "a node for the target is among the nodes"
HasTargetNode(k, nodes, dataset, variable) ==
    \E i \in 1..Len(nodes) :
        CASE k = "variable" -> Upper(nodes[i].id) = TargetId(k, dataset, variable)
          [] k = "endpoint" -> Lower(nodes[i].id) = Lower(variable)
          [] k = "display"  -> Lower(nodes[i].id) = Norm(variable)
          [] OTHER          -> Lower(Strip(nodes[i].id)) = Lower(Strip(variable))

\* the node each builder appends when the test fails
TargetNode(k, dataset, variable) ==
    CASE k = "variable" ->
            Node(TargetId(k, dataset, variable),
                 SuggestTypeForId(TargetId(k, dataset, variable), dataset), "",
                 ExplVarTarget)
      [] k = "endpoint" -> Node(Lower(variable), "endpoint", "", ExplEndpointRoot)
      [] k = "display"  -> Node(variable, "tlf display", "", ExplDisplayNode)
      [] OTHER          -> Node(variable, "tlf cell", "", ExplCellNode)

\* out["dataset"] of each builder
OutDataset(k, dataset, rawDataset) ==
    CASE k = "variable" -> IF rawDataset # NoStr THEN rawDataset ELSE Upper(dataset)
      [] k = "endpoint" -> LitEndpoint
      [] OTHER          -> LitTable

\* raw.get("variable") or <the builder's default>
OutVariable(k, variable, rawVariable) ==
    IF rawVariable # NoStr THEN rawVariable
    ELSE IF k = "variable" THEN Upper(variable) ELSE variable

\* out as assembled from the parsed answer
AssembleOut(k, dataset, variable, r) ==
    [ variable |-> OutVariable(k, variable, r.variable),
      dataset  |-> OutDataset(k, dataset, r.dataset),
      summary  |-> r.summary,
      nodes    |-> r.nodes, edges |-> r.edges, gaps |-> r.gaps ]

\* the graph before _validate_and_fix_graph: prefixes added (the endpoint
\* builder adds none), target appended when missing
WithTarget(k, dataset, variable, r) ==
    LET o0 == AssembleOut(k, dataset, variable, r)
        o1 == IF k = "endpoint" THEN o0 ELSE AutoPrefixAdamVars(o0)
    IN  IF HasTargetNode(k, o1.nodes, dataset, variable) THEN o1
        ELSE [o1 EXCEPT !.nodes = Append(@, TargetNode(k, dataset, variable))]

\* if not out.get("summary"): out["summary"] = ...
FillSummary(k, g) ==
    IF g.summary # <<>> \/ k = "cell" THEN g
    ELSE [g EXCEPT !.summary =
            CASE k = "variable" -> <<"Lineage for the variable assembled from protocol/USDM, aCRF index, and define/spec.">>
              [] k = "endpoint" -> <<"Endpoint lineage assembled from USDM/Protocol, aCRF index, define/spec, and TLF titles.">>
              [] OTHER          -> <<"Table lineage for the display.">>]

\* the graph with no gap at all where the builders report missing evidence
NoEvidenceGraphSilent(k, dataset, variable) ==
    [ variable |-> variable,
      dataset  |-> IF k = "variable" THEN dataset
                   ELSE IF k = "endpoint" THEN LitEndpoint ELSE LitTable,
      summary  |-> <<"No evidence available in session.">>,
      nodes    |-> << Node(TargetId(k, dataset, variable), "concept", "",
                           "[general] Target only; no artifacts to trace against.") >>,
      edges    |-> <<>>,
      gaps     |-> <<>> ]

\* the graphs the builders return when there is nothing to read
NoEvidenceGraph(k, dataset, variable) ==
    [ variable |-> variable,
      dataset  |-> IF k = "variable" THEN dataset
                   ELSE IF k = "endpoint" THEN LitEndpoint ELSE LitTable,
      summary  |-> IF k = "cell" THEN <<"No ARS/ARD files found in the current session.">>
                   ELSE <<"No evidence available in session.">>,
      nodes    |-> << CASE k = "variable" ->
                             Node(Upper(Dot(dataset, variable)),
                                  SuggestTypeForId(Dot(dataset, variable), dataset), "",
                                  "[general] Target only; no artifacts to trace against.")
                        [] k = "endpoint" ->
                             Node(Lower(variable), "endpoint", "",
                                  "[general] Endpoint source only; no artifacts to trace against.")
                        [] k = "display" ->
                             Node(variable, "tlf display", "",
                                  "[general] Target display only; no artifacts to trace against.")
                        [] OTHER ->
                             Node(variable, "tlf cell", "",
                                  "[general] Target only; no ARS evidence available.") >>,
      edges    |-> <<>>,
      gaps     |-> IF k = "cell" THEN << StrGap(<<"No ARS/ARD files present.">>) >>
                   ELSE << StrGap(<<"No evidence found.">>) >> ]

\* the graph of the builders' except clause
DegradedGraph(k, dataset, variable, e) ==
    [ variable |-> IF k = "variable" THEN Upper(variable) ELSE variable,
      dataset  |-> IF k = "variable" THEN Upper(dataset)
                   ELSE IF k = "endpoint" THEN LitEndpoint ELSE LitTable,
      summary  |-> <<>>,
      nodes    |-> << CASE k = "variable" ->
                             Node(Upper(Dot(dataset, variable)),
                                  SuggestTypeForId(Dot(dataset, variable), dataset), "",
                                  "[general] Post-processing error; returning target only.")
                        [] k = "endpoint" ->
                             Node(Lower(variable), "endpoint", "",
                                  "[general] Post-processing error; returning endpoint root only.")
                        [] OTHER ->
                             Node(variable, "tlf display", "",
                                  "[general] Post-processing error; returning target display only.") >>,
      edges    |-> <<>>,
      gaps     |-> << StrGap(<<"Post-processing error: ", e>>) >> ]

\* the id of the node analyze_variable makes from the request body
PayloadNodeId(p) == Lower(Dot(Strip(p.dataset), Strip(p.variable)))

\* a body without the graph's keys
ErrorDetailOnly(p, e) == [detail |-> e]

\* the value of analyze_variable's except clause
ErrorResponse(p, e) ==
    [ variable |-> p.variable,
      dataset  |-> p.dataset,
      summary  |-> <<>>,
      nodes    |-> << Node(PayloadNodeId(p), "target", "", "[general] Error path.") >>,
      edges    |-> <<>>,
      gaps     |-> << StrGap(<<"Lineage service error: ", e>>) >> ]

\* the value analyze_variable returns when the freeform router finds nothing
UnclassifiedResponse(p) ==
    [ variable |-> p.variable,
      dataset  |-> p.dataset,
      summary  |-> <<>>,
      nodes    |-> << Node(PayloadNodeId(p), "target", "",
                           "[general] Could not classify the freeform request into a dataset/variable.") >>,
      edges    |-> <<>>,
      gaps     |-> << StrGap(<<"Freeform router could not determine dataset/variable.">>) >> ]

-----------------------------------------------------------------------------
(* Spec: one /analyze-variable request.                                    *)

\* RETRY_TRIES
RETRY_TRIES == 5

\* the messages of the exceptions
ExcNoKey     == "OPENAI_API_KEY environment variable is not set."
ExcNoSession == "No session_* folder found under backend/output."
ExcNoSummary == "session_summary.json not found"
ExcApi       == "APIError"
ExcOther     == "Connection error."
ExcParse     == "No JSON object found in model output."
ExcShape     == "'list' object has no attribute 'get'"
ExcEmbed     == "embeddings.create failed"

\* request bodies
Payloads ==
    { [dataset |-> IdAdsl,      variable |-> IdAge],
      [dataset |-> LitEndpoint, variable |-> EndpointOS],
      [dataset |-> LitEndpoint, variable |-> NoStr],
      [dataset |-> DsTableCap,  variable |-> DisplayT1],
      [dataset |-> LitTable,    variable |-> CellT1N],
      [dataset |-> NoStr,       variable |-> <<"a","g","e","?">>] }

\* what _normalize_freeform_request and _normalize_freeform_to_cell_spec
\* may make of a freeform text; an empty dataset stands for None from both
FreeformOutcomes ==
    { [dataset |-> LitAdam,  variable |-> IdAdslAge],
      [dataset |-> LitTable, variable |-> DisplayT1],
      [dataset |-> NoStr,    variable |-> NoStr] }

\* what the process can find: evidence only with a session summary, and a
\* summary or ARS/ARD files only in a session directory
Envs ==
    { e \in [api_key : BOOLEAN, session : BOOLEAN, summary : BOOLEAN,
             evidence : BOOLEAN, ars : BOOLEAN] :
        /\ e.summary => e.session
        /\ e.ars => e.session
        /\ e.evidence => e.summary }

\* a parsed answer
Raw(v, s, nodes, edges) ==
    [shape |-> "object", variable |-> v, dataset |-> NoStr, summary |-> s,
     nodes |-> nodes, edges |-> edges, gaps |-> <<>>]

\* an answer that is no JSON; an answer whose "lineage" is a list
Unparseable == [shape |-> "unparseable"]
LineageList == [shape |-> "lineage_list"]

PlainEdge(f, t) == Edge(f, t, Absent, Absent, ExplDirect)

\* an answer whose lineage holds gaps
WithGaps(r, gaps) == [r EXCEPT !.gaps = gaps]

\* a gap of an augmentation answer
AugGap == [shape |-> "dict", source |-> Absent, target |-> Absent,
           explanation |-> <<"No SDTM source found for ADSL.AGE.">>]

\* answers to the builders' prompt
BaseAnswers ==
    { Raw(NoStr, <<>>, <<>>, <<>>),
      Raw(NoStr, <<"s">>, <<Node(IdDmAge, "sdtm variable", "", ExplDirect)>>,
          <<PlainEdge(IdDmAge, IdAdslAge)>>),
      Raw(NoStr, <<>>, <<Node(IdDmAge, "sdtm variable", "", ExplDirect)>>,
          <<PlainEdge(IdDmAge, IdAdslAgeSp)>>),
      Raw(NoStr, <<>>, <<Node(IdAdslAge, "adam variable", "", ExplDirect)>>, <<>>),
      Raw(NoStr, <<>>, <<Node(IdAdslAgeSp, "", "Age", "")>>, <<>>),
      Raw(NoStr, <<>>, <<Node(IdAdsl, "adam dataset", "", ExplDirect),
                         Node(IdAge, "adam variable", "", ExplDirect)>>,
          <<PlainEdge(IdAdsl, IdAge)>>),
      Raw(NoStr, <<>>, <<Node(IdAdslAge, "adam variable", "", ExplDirect),
                         Node(IdDmAge, "sdtm variable", "", ExplDirect)>>, <<>>),
      Raw(DisplayT1, <<>>, <<Node(IdAdslAge, "adam variable", "", ExplDirect),
                             Node(IdDmAge, "sdtm variable", "", ExplDirect)>>, <<>>),
      Raw(NoStr, <<>>, <<Node(CellT1NCase, "tlf cell", "", ExplDirect),
                         Node(IdAdslAge, "adam variable", "", ExplDirect)>>,
          <<PlainEdge(IdAdslAge, CellT1NCase)>>),
      WithGaps(Raw(NoStr, <<>>, <<Node(IdAdslAge, "adam variable", "", ExplDirect)>>,
                   <<PlainEdge(IdUsdm, IdAdslAge)>>), <<ModelGap>>),
      Unparseable, LineageList }

\* answers to the backtrace and the connectivity-repair prompts
AugAnswers ==
    { Raw(NoStr, <<>>, <<>>, <<>>),
      Raw(NoStr, <<"t">>, <<Node(IdDmAge, "sdtm variable", "", ExplDirect)>>,
          <<PlainEdge(IdDmAge, IdAdslAge)>>),
      WithGaps(Raw(NoStr, <<>>, <<Node(IdDmAge, "sdtm variable", "", ExplDirect)>>, <<>>),
               <<AugGap>>),
      Unparseable, LineageList }

Init ==
    /\ pc = "entry"
    /\ payload \in Payloads
    /\ env \in Envs
    /\ kind = "" /\ ds = NoStr /\ var = NoStr
    /\ stage = "base" /\ llm = LlmIdle /\ raw = NoRaw /\ appended = FALSE
    /\ out = EmptyGraph /\ bres = "none" /\ exc = "" /\ resp = Pending
    /\ NormIdle
    /\ ChunkIdle
    /\ RetrIdle
    /\ ParseIdle
    /\ RetryIdle
    /\ RouteIdle /\ MoreIdle

rest == <<normVars, chunkVars, reqVars, retrVars, parseVars, retryVars, routeVars, moreVars>>

\* analyze_variable up to the call of a builder
AnalyzeVariable ==
    /\ pc = "entry"
    /\ \E r \in FreeformOutcomes :
          LET d0     == Strip(payload.dataset)
              v0     == Strip(payload.variable)
              routed == d0 # NoStr \/ r.dataset # NoStr
              d      == IF d0 # NoStr THEN d0 ELSE r.dataset
              v      == IF d0 # NoStr THEN v0 ELSE r.variable
          IN  IF routed
              THEN /\ ds' = d /\ var' = v
                   /\ kind' = IF Lower(d) \in {LitEndpoint, LitSoa} THEN "endpoint"
                              ELSE KindOf(d, v)
                   /\ pc' = "open"
                   /\ UNCHANGED resp
              ELSE /\ resp' = UnclassifiedResponse(payload)
                   /\ pc' = "done"
                   /\ UNCHANGED <<ds, var, kind>>
    /\ UNCHANGED <<stage, llm, raw, appended, out, bres, exc, rest>>

\* an exception e at a site of the builder: swallowed by
\* _ensure_ars_connectivity, caught by the builder's own except clause, or
\* raised to analyze_variable
Throw(e, site) ==
    IF site = "repair"
    THEN pc' = "return" /\ UNCHANGED <<out, bres, exc>>
    ELSE IF site \in {"post", "backtrace"} /\ kind # "cell"
    THEN /\ pc' = "return"
         /\ out' = DegradedGraph(kind, ds, var, e)
         /\ exc' = e
         /\ UNCHANGED bres
    ELSE /\ pc' = "except"
         /\ bres' = "raised"
         /\ exc' = e
         /\ UNCHANGED out

\* _make_client, _latest_session, _load_session_summary: the first that raises
EnvFailure(needSummary) ==
    IF ~env.api_key THEN ExcNoKey
    ELSE IF ~env.session THEN ExcNoSession
    ELSE IF needSummary /\ ~env.summary THEN ExcNoSummary
    ELSE ""

\* the start of a builder, in the order of its statements:
\* an exception message, "no evidence" or "ok"
OpenOutcome(k) ==
    CASE k \in {"variable", "endpoint"} ->
            IF EnvFailure(TRUE) # "" THEN EnvFailure(TRUE)
            ELSE IF ~env.evidence THEN "no evidence" ELSE "ok"
      [] k = "display" ->
            IF ~env.session THEN ExcNoSession
            ELSE IF ~env.summary THEN ExcNoSummary
            ELSE IF ~env.api_key THEN ExcNoKey
            ELSE IF ~env.evidence THEN "no evidence" ELSE "ok"
      [] OTHER ->
            IF ~env.session THEN ExcNoSession
            ELSE IF ~env.ars THEN "no evidence"
            ELSE IF ~env.api_key THEN ExcNoKey ELSE "ok"

\* a builder from its first statement to the check  if not chunks
OpenSession ==
    /\ pc = "open"
    /\ LET o == OpenOutcome(kind)
       IN  IF o = "ok"
           THEN pc' = "retrieve" /\ UNCHANGED <<out, bres, exc>>
           ELSE IF o = "no evidence"
           THEN /\ out' = NoEvidenceGraph(kind, ds, var)
                /\ pc' = "return"
                /\ UNCHANGED <<bres, exc>>
           ELSE Throw(o, "base")
    /\ UNCHANGED <<kind, ds, var, stage, llm, raw, appended, resp, rest>>

\* _retrieve: with no chunk it returns at once, else it embeds
Retrieve ==
    /\ pc = "retrieve"
    /\ \E ok \in BOOLEAN :
          IF ok \/ (stage # "base" /\ ~env.evidence)
          THEN pc' = "chat" /\ llm' = LlmIdle /\ UNCHANGED <<out, bres, exc>>
          ELSE Throw(ExcEmbed, stage) /\ UNCHANGED llm
    /\ UNCHANGED <<kind, ds, var, stage, raw, appended, resp, rest>>

\* _chat_call(m) raised: try the fallback model, or give up
ChatCallFailed(e) ==
    IF llm.model = "primary"
    THEN /\ llm' = [model |-> "fallback", tries |-> 0]
         /\ UNCHANGED <<pc, out, bres, exc>>
    ELSE /\ llm' = [llm EXCEPT !.tries = IF e = ExcApi THEN @ + 1 ELSE @]
         /\ Throw(e, stage)

\* one attempt of _retry that raises
ChatAttemptFails ==
    /\ pc = "chat"
    /\ llm.tries < RETRY_TRIES
    /\ \E e \in {ExcApi, ExcOther} :
          IF e = ExcApi /\ llm.tries + 1 < RETRY_TRIES
          THEN /\ llm' = [llm EXCEPT !.tries = @ + 1]
               /\ UNCHANGED <<pc, out, bres, exc>>
          ELSE ChatCallFailed(e)
    /\ UNCHANGED <<kind, ds, var, stage, raw, appended, resp, rest>>

\* one attempt of _retry that returns, and _parse_llm_json of the content
ChatAttemptAnswers ==
    /\ pc = "chat"
    /\ llm.tries < RETRY_TRIES
    /\ \E a \in (IF stage = "base" THEN BaseAnswers ELSE AugAnswers) :
          IF a.shape = "unparseable"
          THEN ChatCallFailed(ExcParse) /\ UNCHANGED raw
          ELSE /\ raw' = a
               /\ llm' = LlmIdle
               /\ pc' = IF stage = "base" THEN "post" ELSE "merge"
               /\ UNCHANGED <<out, bres, exc>>
    /\ UNCHANGED <<kind, ds, var, stage, appended, resp, rest>>

\* the backtrace asked again while SDTM ancestry is still missing
AfterBacktraceAgain(g) ==
    IF NeedsBacktrace(g)
    THEN pc' = "backtrace" /\ out' = g
    ELSE IF kind = "cell"
    THEN pc' = "connect" /\ out' = g
    ELSE pc' = "return" /\ out' = FillSummary(kind, g)

\* where a builder goes after the backtrace
AfterBacktrace(g) ==
    IF kind = "cell"
    THEN pc' = "connect" /\ out' = g
    ELSE pc' = "return" /\ out' = FillSummary(kind, g)

\* out assembled, prefixed, the target ensured, _validate_and_fix_graph
PostProcess ==
    /\ pc = "post"
    /\ IF raw.shape = "lineage_list"
       THEN Throw(ExcShape, "post") /\ UNCHANGED appended
       ELSE LET pre == WithTarget(kind, ds, var, raw)
                g   == ValidateAndFixGraph(pre)
            IN  /\ appended' = (Len(pre.nodes) > Len(raw.nodes))
                /\ IF kind = "endpoint"
                   THEN pc' = "return" /\ out' = FillSummary(kind, g)
                   ELSE pc' = "backtrace" /\ out' = g
                /\ UNCHANGED <<bres, exc>>
    /\ UNCHANGED <<kind, ds, var, stage, llm, raw, resp, rest>>

\* _augment_backtrace_if_missing_sdtm up to its retrieval
Backtrace ==
    /\ pc = "backtrace"
    /\ IF ~NeedsBacktrace(out)
       THEN AfterBacktrace(out) /\ UNCHANGED <<stage, bres, exc>>
       ELSE IF EnvFailure(TRUE) # ""
       THEN Throw(EnvFailure(TRUE), "backtrace") /\ UNCHANGED stage
       ELSE pc' = "retrieve" /\ stage' = "backtrace" /\ UNCHANGED <<out, bres, exc>>
    /\ UNCHANGED <<kind, ds, var, llm, raw, appended, resp, rest>>

\* the graph made of an augmentation answer
AugGraph(r) ==
    [ variable |-> IF r.variable # NoStr THEN r.variable ELSE out.variable,
      dataset  |-> IF stage = "repair" THEN LitTable ELSE out.dataset,
      summary  |-> r.summary,
      nodes    |-> r.nodes, edges |-> r.edges, gaps |-> r.gaps ]

\* the end of _augment_backtrace_if_missing_sdtm and of _ensure_ars_connectivity
Merge ==
    /\ pc = "merge"
    /\ IF raw.shape = "lineage_list"
       THEN Throw(ExcShape, stage)
       ELSE /\ IF stage = "backtrace"
               THEN AfterBacktrace(MergeGraphs(out, AugGraph(raw)))
               ELSE pc' = "return" /\ out' = MergeGraphs(out, AugGraph(raw))
            /\ UNCHANGED <<bres, exc>>
    /\ UNCHANGED <<kind, ds, var, stage, llm, raw, appended, resp, rest>>

\* _ensure_ars_connectivity up to its retrieval
Connect ==
    /\ pc = "connect"
    /\ IF ~NeedsRepair(out)
       THEN pc' = "return" /\ UNCHANGED <<stage, out, bres, exc>>
       ELSE IF EnvFailure(TRUE) # ""
       THEN Throw(EnvFailure(TRUE), "repair") /\ UNCHANGED stage
       ELSE pc' = "retrieve" /\ stage' = "repair" /\ UNCHANGED <<out, bres, exc>>
    /\ UNCHANGED <<kind, ds, var, llm, raw, appended, resp, rest>>

\* the builder returns, and analyze_variable returns its value
BuilderReturns ==
    /\ pc = "return"
    /\ bres' = "returned"
    /\ resp' = out
    /\ pc' = "done"
    /\ UNCHANGED <<kind, ds, var, stage, llm, raw, appended, out, exc, rest>>

\* analyze_variable's except clause
ErrorPath ==
    /\ pc = "except"
    /\ resp' = ErrorResponse(payload, exc)
    /\ pc' = "done"
    /\ UNCHANGED <<kind, ds, var, stage, llm, raw, appended, out, bres, exc, rest>>

Next ==
    \/ AnalyzeVariable
    \/ OpenSession
    \/ Retrieve
    \/ ChatAttemptFails
    \/ ChatAttemptAnswers
    \/ PostProcess
    \/ Backtrace
    \/ Merge
    \/ Connect
    \/ BuilderReturns
    \/ ErrorPath

Spec == Init /\ [][Next]_vars

-----------------------------------------------------------------------------
(* SpecRetrieve: _retrieve, with _prefilter_chunks.                        *)

\* MAX_INPUTS, and the 300 of  max(300, len(scored))
MAX_INPUTS  == 1500
MinKeep     == 300

MaxRetrChunks == 3    \* chunk lists of length 0..MaxRetrChunks
MaxK          == 3    \* k in -1..MaxK

\* the tokens _prefilter_chunks always looks for
FixedToks ==
    { <<"C","R","F">>, <<"P","R","O","T","O","C","O","L">>, <<"S","D","T","M">>,
      <<"A","D","A","M">>, <<"T","L","F">>, <<"D","E","R","I","V">>,
      <<"D","E","R","I","V","E","D">>, <<"S","O","U","R","C","E">>, <<"M","A","P">>,
      <<"L","I","N","K">>, <<"V","A","R">>, <<"V","A","R","I","A","B","L","E">>,
      <<"E","N","D","P","O","I","N","T">>, <<"S","O","A">>,
      <<"A","N","A","L","Y","S","I","S">>, <<"R","E","S","U","L","T">>,
      <<"T","A","B","L","E">> }

RECURSIVE SplitWords(_, _, _)
\* s.split() on the characters from i on, cur being the word in progress
SplitWords(s, i, cur) ==
    IF i > Len(s) THEN (IF cur = <<>> THEN {} ELSE {cur})
    ELSE IF s[i] \in Whitespace
    THEN (IF cur = <<>> THEN {} ELSE {cur}) \cup SplitWords(s, i + 1, <<>>)
    ELSE SplitWords(s, i + 1, Append(cur, s[i]))

\* target_u.replace(".", " ")
DotsToBlanks(s) == [i \in 1..Len(s) |-> IF s[i] = "." THEN " " ELSE s[i]]

\* toks of _prefilter_chunks
PrefilterToks(target) ==
    { t \in SplitWords(DotsToBlanks(Upper(target)), 1, <<>>) : Len(t) >= 3 }
        \cup FixedToks

\* score of a chunk: the tokens that occur in its upper-cased text
ChunkScore(c, toks) == Cardinality({ t \in toks : Contains(Upper(c.text), t) })

\* the orders of the positions 1..n
Perms(n) == { p \in [1..n -> 1..n] : \A i, j \in 1..n : i # j => p[i] # p[j] }

\* scored.sort(key=score, reverse=True): by score, highest first, chunks of
\* equal score in the order of the list
SortByScore(chunks, toks) ==
    CHOOSE p \in Perms(Len(chunks)) :
        \A i, j \in 1..Len(chunks) :
            i < j => \/ ChunkScore(chunks[p[i]], toks) > ChunkScore(chunks[p[j]], toks)
                     \/ /\ ChunkScore(chunks[p[i]], toks) = ChunkScore(chunks[p[j]], toks)
                        /\ p[i] < p[j]

\* a slice that returns the whole list for k = 0
SliceToOrAll(s, k) ==
    IF k > 0 THEN SubSeq(s, 1, MinOf(k, Len(s)))
    ELSE IF k = 0 THEN s
    ELSE SubSeq(s, 1, MaxOf(Len(s) + k, 0))

\* s[:k] of Python
SliceTo(s, k) ==
    IF k >= 0 THEN SubSeq(s, 1, MinOf(k, Len(s)))
    ELSE SubSeq(s, 1, MaxOf(Len(s) + k, 0))

\* _prefilter_chunks(chunks, target), as positions in chunks
PrefilterChunks(chunks, target) ==
    SliceTo(SortByScore(chunks, PrefilterToks(target)),
            MinOf(MAX_INPUTS, MaxOf(MinKeep, Len(chunks))))

\* chunk texts
RetrTexts == { <<"a","g","e">>, <<"S","D","T","M"," ","a","g","e">>, <<"z">> }

InitRetrieve ==
    /\ rpc = "in"
    /\ rChunks \in SeqsUpTo([text : RetrTexts], MaxRetrChunks)
    /\ rQuery \in {IdAdslAge, IdDmAge}
    /\ rK \in (-1)..MaxK
    /\ rKept = <<>>
    /\ rOut = <<>>
    /\ NormIdle /\ ChunkIdle /\ PipeIdle /\ ParseIdle /\ RetryIdle /\ RouteIdle /\ MoreIdle

\* chunks = _prefilter_chunks(chunks, query); texts = [...]
Prefilter ==
    /\ rpc = "in"
    /\ rKept' = PrefilterChunks(rChunks, rQuery)
    /\ rpc' = "filtered"
    /\ UNCHANGED <<rChunks, rQuery, rK, rOut, normVars, chunkVars, pipeVars, parseVars, retryVars, routeVars, moreVars>>

\* if not texts: return []
RetrieveNothing ==
    /\ rpc = "filtered"
    /\ rKept = <<>>
    /\ rOut' = <<>>
    /\ rpc' = "done"
    /\ UNCHANGED <<rChunks, rQuery, rK, rKept, normVars, chunkVars, pipeVars, parseVars, retryVars, routeVars, moreVars>>

\* the embeddings give some order of similarity: idx = sims.argsort()[::-1][:k]
RetrieveRanked ==
    /\ rpc = "filtered"
    /\ rKept # <<>>
    /\ \E order \in Perms(Len(rKept)) :
          rOut' = SliceTo([i \in 1..Len(rKept) |-> rKept[order[i]]], rK)
    /\ rpc' = "done"
    /\ UNCHANGED <<rChunks, rQuery, rK, rKept, normVars, chunkVars, pipeVars, parseVars, retryVars, routeVars, moreVars>>

NextRetrieve == Prefilter \/ RetrieveNothing \/ RetrieveRanked

SpecRetrieve == InitRetrieve /\ [][NextRetrieve]_vars

-----------------------------------------------------------------------------
(* _parse_llm_json: texts, the two scanners, the two decoders.             *)

\* JSON values: strings, the literals true/false/null, numbers, lists and
\* objects (a list of <<key, value>> pairs).  A Python set is a value too.
VStr(s)      == [k |-> "str",  v |-> s]
VLit(s)      == [k |-> "lit",  v |-> s]
VNum(s)      == [k |-> "num",  v |-> s]
VList(items) == [k |-> "list", v |-> items]
VDict(items) == [k |-> "dict", v |-> items]
VSet(items)  == [k |-> "set",  v |-> items]

JTrue  == <<"t","r","u","e">>
JFalse == <<"f","a","l","s","e">>
JNull  == <<"n","u","l","l">>
PyTrue  == <<"T","r","u","e">>
PyFalse == <<"F","a","l","s","e">>
PyNone  == <<"N","o","n","e">>

DQ == "\""
SQ == "'"
BackSlash == "\\"

RECURSIVE Dump(_, _)
RECURSIVE DumpItems(_, _, _)
RECURSIVE DumpPairs(_, _, _)
\* the text of value x with q as the quote character, as json.dumps lays it
\* out: ", " between the items and ": " after a key
Dump(x, q) ==
    CASE x.k = "str"  -> <<q>> \o x.v \o <<q>>
      [] x.k = "list" -> <<"[">> \o DumpItems(x.v, 1, q) \o <<"]">>
      [] x.k = "dict" -> <<"{">> \o DumpPairs(x.v, 1, q) \o <<"}">>
      [] OTHER        -> x.v

DumpItems(items, i, q) ==
    IF i > Len(items) THEN <<>>
    ELSE Dump(items[i], q)
           \o (IF i < Len(items) THEN <<",", " ">> ELSE <<>>)
           \o DumpItems(items, i + 1, q)

DumpPairs(items, i, q) ==
    IF i > Len(items) THEN <<>>
    ELSE Dump(items[i][1], q) \o <<":", " ">> \o Dump(items[i][2], q)
           \o (IF i < Len(items) THEN <<",", " ">> ELSE <<>>)
           \o DumpPairs(items, i + 1, q)

\* s.find(c) and s.rfind(c) for one character, counted from 0; -1 if absent
FindChar(s, c) ==
    LET at == {i \in 1..Len(s) : s[i] = c}
    IN  IF at = {} THEN -1 ELSE (CHOOSE i \in at : \A j \in at : i <= j) - 1
RFindChar(s, c) ==
    LET at == {i \in 1..Len(s) : s[i] = c}
    IN  IF at = {} THEN -1 ELSE (CHOOSE i \in at : \A j \in at : j <= i) - 1

\* the first position >= j of s that holds a character of S, or 0
NextOf(s, j, S) ==
    LET at == {i \in j..Len(s) : s[i] \in S}
    IN  IF at = {} THEN 0 ELSE CHOOSE i \in at : \A n \in at : i <= n

RECURSIVE StringEnd(_, _, _)
\* in_str / esc / quote of the two scanners: the position of the quote q
\* that closes the string opened before j, or 0 if the text ends inside it;
\* the character after a backslash is passed over
StringEnd(s, j, q) ==
    LET n == NextOf(s, j, {BackSlash, q})
    IN  IF n = 0 THEN 0
        ELSE IF s[n] = BackSlash THEN StringEnd(s, n + 2, q)
        ELSE n

RECURSIVE BalancedEnd(_, _, _)
\* the loop of _extract_balanced_json_blob from position j (from 1) on, taken
\* from one character that changes its state to the next: the position of
\* the brace that brings depth back to 0, or 0
BalancedEnd(s, j, depth) ==
    LET n == NextOf(s, j, {"{", "}", SQ, DQ})
    IN  IF n = 0 THEN 0
        ELSE IF s[n] \in {SQ, DQ}
             THEN (LET e == StringEnd(s, n + 1, s[n])
                   IN  IF e = 0 THEN 0 ELSE BalancedEnd(s, e + 1, depth))
        ELSE IF s[n] = "{" THEN BalancedEnd(s, n + 1, depth + 1)
        ELSE IF depth - 1 = 0 THEN n
        ELSE BalancedEnd(s, n + 1, depth - 1)

\* _extract_balanced_json_blob(s): the blob, or <<>> where it raises
ExtractBalancedJsonBlob(s) ==
    LET i == FindChar(s, "{")
        e == IF i = -1 THEN 0 ELSE BalancedEnd(s, i + 1, 0)
    IN  IF e = 0 THEN <<>> ELSE SubSeq(s, i + 1, e)

RECURSIVE OpenBrackets(_, _, _)
\* the loop of _maybe_close_square_brackets, taken the same way: the depth
\* at the end of the blob
OpenBrackets(s, j, depth) ==
    LET n == NextOf(s, j, {"[", "]", SQ, DQ})
    IN  IF n = 0 THEN depth
        ELSE IF s[n] \in {SQ, DQ}
             THEN (LET e == StringEnd(s, n + 1, s[n])
                   IN  IF e = 0 THEN depth ELSE OpenBrackets(s, e + 1, depth))
        ELSE IF s[n] = "[" THEN OpenBrackets(s, n + 1, depth + 1)
        ELSE OpenBrackets(s, n + 1, MaxOf(0, depth - 1))

\* _maybe_close_square_brackets(blob)
MaybeCloseSquareBrackets(blob) ==
    LET depth == OpenBrackets(blob, 1, 0)
        k     == RFindChar(blob, "}")
        close == [i \in 1..depth |-> "]"]
    IN  IF depth > 0
        THEN (IF k # -1
              THEN SubSeq(blob, 1, k) \o close \o SubSeq(blob, k + 1, Len(blob))
              ELSE blob \o close)
        ELSE blob

\* the curly quotes U+201C, U+201D, U+2018, U+2019, one character each
LDQ == "\\u201c"
RDQ == "\\u201d"
LSQ == "\\u2018"
RSQ == "\\u2019"

\* the four replace() calls on the blob
NormalizeCurlyQuotes(s) ==
    [i \in 1..Len(s) |->
        IF s[i] \in {LDQ, RDQ} THEN DQ
        ELSE IF s[i] \in {LSQ, RSQ} THEN SQ
        ELSE s[i]]

\* the backquote U+0060, one character
BackTick == "\\u0060"
Fence3   == <<BackTick, BackTick, BackTick>>
JsonWord == <<"j","s","o","n">>

LowerAny(s) == [i \in 1..Len(s) |-> IF s[i] \in UpperLetters THEN LowerOf[s[i]] ELSE s[i]]

\* the first position >= from where sub starts in s, or 0
FindSub(s, sub, from) ==
    LET at == {i \in from..(Len(s) - Len(sub) + 1) : SubSeq(s, i, i + Len(sub) - 1) = sub}
    IN  IF at = {} THEN 0 ELSE CHOOSE i \in at : \A j \in at : i <= j

\* _JSON_FENCE_RE.search(raw): [found, body], body being group(1).strip()
JsonFence(txt) ==
    LET a     == FindSub(txt, Fence3, 1)
        b     == IF a = 0 THEN 0 ELSE FindSub(txt, Fence3, a + 3)
        inner == SubSeq(txt, a + 3, b - 1)
        body  == IF StartsWith(LowerAny(inner), JsonWord)
                 THEN SubSeq(inner, 5, Len(inner)) ELSE inner
    IN  IF b = 0 THEN [found |-> FALSE, body |-> <<>>]
        ELSE [found |-> TRUE, body |-> Strip(body)]

\* the tokens of a text, as json and ast both cut it: a string with its
\* quote, a word (a literal or a number), a punctuation mark; anything else
\* is a token neither decoder accepts
Punct     == {"{", "}", "[", "]", ",", ":"}
WordChars == UpperLetters \cup LowerLetters \cup Digits
Tok(t, q, v) == [t |-> t, q |-> q, v |-> v]

RECURSIVE WordEnd(_, _)
WordEnd(s, j) == IF j <= Len(s) /\ s[j] \in WordChars THEN WordEnd(s, j + 1) ELSE j - 1

RECURSIVE Lex(_, _)
Lex(s, i) ==
    IF i > Len(s) THEN <<>>
    ELSE IF s[i] \in Whitespace THEN Lex(s, i + 1)
    ELSE IF s[i] \in Punct THEN <<Tok("p", "", <<s[i]>>)>> \o Lex(s, i + 1)
    ELSE IF s[i] \in {SQ, DQ}
         THEN LET e == StringEnd(s, i + 1, s[i])
              IN  IF e = 0 THEN <<Tok("bad", "", <<>>)>>
                  ELSE <<Tok("s", s[i], SubSeq(s, i + 1, e - 1))>> \o Lex(s, e + 1)
    ELSE IF s[i] \in WordChars
         THEN LET e == WordEnd(s, i)
              IN  <<Tok("w", "", SubSeq(s, i, e))>> \o Lex(s, e + 1)
    ELSE <<Tok("bad", "", <<s[i]>>)>>

IsP(toks, i, c) == i <= Len(toks) /\ toks[i].t = "p" /\ toks[i].v = <<c>>

NoValue == [ok |-> FALSE, val |-> VLit(JNull), next |-> 0]
Got(val, next) == [ok |-> TRUE, val |-> val, next |-> next]

\* a word as a value: json knows true, false, null; Python knows True,
\* False, None; both know the numbers
WordValue(w, py) ==
    IF \A i \in 1..Len(w) : w[i] \in Digits THEN [ok |-> TRUE, val |-> VNum(w)]
    ELSE IF ~py /\ w \in {JTrue, JFalse, JNull} THEN [ok |-> TRUE, val |-> VLit(w)]
    ELSE IF py /\ w = PyTrue  THEN [ok |-> TRUE, val |-> VLit(JTrue)]
    ELSE IF py /\ w = PyFalse THEN [ok |-> TRUE, val |-> VLit(JFalse)]
    ELSE IF py /\ w = PyNone  THEN [ok |-> TRUE, val |-> VLit(JNull)]
    ELSE [ok |-> FALSE, val |-> VLit(JNull)]

IsScalar(x) == x.k \in {"str", "lit", "num"}

\* d[key] = val on the pair list of a dict: a key met again keeps its place
PutPair(pairs, key, val) ==
    IF \E i \in 1..Len(pairs) : pairs[i][1] = key
    THEN [i \in 1..Len(pairs) |-> IF pairs[i][1] = key THEN <<key, val>> ELSE pairs[i]]
    ELSE Append(pairs, <<key, val>>)

AddMember(items, x) ==
    IF \E i \in 1..Len(items) : items[i] = x THEN items ELSE Append(items, x)

RECURSIVE ParseValue(_, _, _)
RECURSIVE ParseList(_, _, _, _, _)
RECURSIVE ParsePairs(_, _, _, _, _)
RECURSIVE ParseSet(_, _, _, _)

\* the value that starts at token i; py: Python's grammar (ast.literal_eval)
\* rather than JSON's (json.loads)
ParseValue(toks, i, py) ==
    IF i > Len(toks) THEN NoValue
    ELSE LET tk == toks[i] IN
         IF tk.t = "s"
         THEN (IF py \/ tk.q = DQ THEN Got(VStr(tk.v), i + 1) ELSE NoValue)
         ELSE IF tk.t = "w"
         THEN (LET w == WordValue(tk.v, py)
               IN  IF w.ok THEN Got(w.val, i + 1) ELSE NoValue)
         ELSE IF IsP(toks, i, "[") THEN ParseList(toks, i + 1, py, <<>>, FALSE)
         ELSE IF IsP(toks, i, "{")
         THEN (IF IsP(toks, i + 1, "}") THEN Got(VDict(<<>>), i + 2)
               ELSE LET first == ParseValue(toks, i + 1, py)
                    IN  IF first.ok /\ IsP(toks, first.next, ":")
                        THEN ParsePairs(toks, i + 1, py, <<>>, FALSE)
                        ELSE IF py THEN ParseSet(toks, i + 1, <<>>, FALSE)
                        ELSE NoValue)
         ELSE NoValue

\* the items of a list from token i on; Python allows a comma before the ]
ParseList(toks, i, py, acc, afterComma) ==
    IF IsP(toks, i, "]")
    THEN (IF afterComma /\ ~py THEN NoValue ELSE Got(VList(acc), i + 1))
    ELSE LET r == ParseValue(toks, i, py)
         IN  IF ~r.ok THEN NoValue
             ELSE IF IsP(toks, r.next, ",")
                  THEN ParseList(toks, r.next + 1, py, Append(acc, r.val), TRUE)
             ELSE IF IsP(toks, r.next, "]") THEN Got(VList(Append(acc, r.val)), r.next + 1)
             ELSE NoValue

\* the pairs of an object: JSON wants string keys, Python any scalar, which
\* _to_jsonable turns into its str()
ParsePairs(toks, i, py, acc, afterComma) ==
    IF IsP(toks, i, "}")
    THEN (IF afterComma /\ ~py THEN NoValue ELSE Got(VDict(acc), i + 1))
    ELSE LET key == ParseValue(toks, i, py)
         IN  IF ~key.ok \/ ~IsScalar(key.val) \/ (~py /\ key.val.k # "str")
                \/ ~IsP(toks, key.next, ":")
             THEN NoValue
             ELSE LET r == ParseValue(toks, key.next + 1, py)
                  IN  IF ~r.ok THEN NoValue
                      ELSE IF IsP(toks, r.next, ",")
                           THEN ParsePairs(toks, r.next + 1, py,
                                           PutPair(acc, key.val, r.val), TRUE)
                      ELSE IF IsP(toks, r.next, "}")
                           THEN Got(VDict(PutPair(acc, key.val, r.val)), r.next + 1)
                      ELSE NoValue

\* the members of a Python set display; a member must be hashable
ParseSet(toks, i, acc, afterComma) ==
    IF IsP(toks, i, "}")
    THEN (IF acc = <<>> THEN NoValue ELSE Got(VSet(acc), i + 1))
    ELSE LET r == ParseValue(toks, i, TRUE)
         IN  IF ~r.ok \/ ~IsScalar(r.val) THEN NoValue
             ELSE IF IsP(toks, r.next, ",")
                  THEN ParseSet(toks, r.next + 1, AddMember(acc, r.val), TRUE)
             ELSE IF IsP(toks, r.next, "}")
                  THEN Got(VSet(AddMember(acc, r.val)), r.next + 1)
             ELSE NoValue

\* the whole text as one value
Decode(s, py) ==
    LET toks == Lex(s, 1)
        r    == ParseValue(toks, 1, py)
    IN  IF r.ok /\ r.next = Len(toks) + 1
        THEN [ok |-> TRUE, val |-> r.val] ELSE [ok |-> FALSE, val |-> VLit(JNull)]

JsonLoads(s)   == Decode(s, FALSE)
LiteralEval(s) == Decode(s, TRUE)

\* str(k) of a key
KeyStr(x) ==
    IF x.k = "lit"
    THEN VStr(IF x.v = JTrue THEN PyTrue ELSE IF x.v = JFalse THEN PyFalse ELSE PyNone)
    ELSE VStr(x.v)

RECURSIVE ToJsonable(_)
\* _to_jsonable with the members of a set in the order of the text
ToJsonable(x) ==
    IF x.k = "dict"
    THEN VDict([i \in 1..Len(x.v) |-> <<KeyStr(x.v[i][1]), ToJsonable(x.v[i][2])>>])
    ELSE IF x.k \in {"list", "set"}
    THEN VList([i \in 1..Len(x.v) |-> ToJsonable(x.v[i])])
    ELSE x

-----------------------------------------------------------------------------
(* SpecParse: one call of _parse_llm_json on a text of the model.          *)

KLineage == <<"l","i","n","e","a","g","e">>
KNodes   == <<"n","o","d","e","s">>
KEdges   == <<"e","d","g","e","s">>
KGaps    == <<"g","a","p","s">>
KId      == <<"i","d">>
KOk      == <<"o","k">>
KVar     == <<"v","a","r","i","a","b","l","e">>

NodeA   == VDict(<< <<VStr(KId), VStr(<<"A">>)>> >>)
NodeAOk == VDict(<< <<VStr(KId), VStr(<<"A">>)>>, <<VStr(KOk), VLit(JTrue)>> >>)

\* graph objects whose lineage.nodes is a list
GraphBare  == VDict(<< <<VStr(KLineage), VDict(<< <<VStr(KNodes), VList(<<>>)>> >>)>> >>)
GraphEdges == VDict(<< <<VStr(KVar), VStr(IdAge)>>,
                       <<VStr(KLineage),
                         VDict(<< <<VStr(KNodes), VList(<<NodeA>>)>>,
                                  <<VStr(KEdges), VList(<<>>)>> >>)>> >>)
GraphFlag  == VDict(<< <<VStr(KLineage), VDict(<< <<VStr(KNodes), VList(<<NodeAOk>>)>> >>)>> >>)
GraphGaps  == VDict(<< <<VStr(KLineage), VDict(<< <<VStr(KNodes), VList(<<>>)>> >>)>>,
                       <<VStr(KGaps), VList(<<VStr(<<"x">>)>>)>> >>)
ParsedGraphs == {GraphBare, GraphEdges, GraphFlag, GraphGaps}

NoGraph == [k |-> "none", v |-> <<>>]

RECURSIVE DropNth(_, _, _)
\* the text s without its n-th character c
DropNth(s, c, n) ==
    IF s = <<>> THEN <<>>
    ELSE IF Head(s) = c
         THEN (IF n = 1 THEN Tail(s) ELSE <<Head(s)>> \o DropNth(Tail(s), c, n - 1))
    ELSE <<Head(s)>> \o DropNth(Tail(s), c, n)

CountChar(s, c) == Cardinality({i \in 1..Len(s) : s[i] = c})

Prose == <<"H","e","r","e",":"," ">>

\* the texts a model writes for a graph object
TextOf(j, form) ==
    CASE form = "strict" -> Dump(j, DQ)
      [] form = "fenced" -> Fence3 \o JsonWord \o <<"\n">> \o Dump(j, DQ) \o <<"\n">> \o Fence3
      [] form = "single" -> Dump(j, SQ)
      [] form = "curly"  -> Dump(j, LDQ)
      [] form = "prose"  -> Prose \o Dump(j, DQ) \o <<" ">>
      [] form = "cut"    -> DropNth(Dump(j, DQ), "}", CountChar(Dump(j, DQ), "}"))

WholeForms == {"strict", "fenced", "single", "curly", "prose", "cut"}

\* the members as a Python set display
SetText(items) == <<"{">> \o DumpItems(items, 1, SQ) \o <<"}">>

ParseInputs ==
    {[j |-> j, form |-> f, s |-> TextOf(j, f)] : j \in ParsedGraphs, f \in WholeForms}
    \cup UNION {{[j |-> j, form |-> "unclosed", s |-> DropNth(Dump(j, DQ), "]", n)]
                   : n \in 1..CountChar(Dump(j, DQ), "]")} : j \in ParsedGraphs}
    \cup {[j |-> NoGraph, form |-> "other", s |-> t]
            : t \in {<<>>, Prose, SetText(<<VStr(<<"a">>), VStr(<<"b">>)>>),
                     SetText(<<VNum(<<"1">>)>>)}}

Returned(val) == [kind |-> "return", val |-> val]
Raised        == [kind |-> "raise",  val |-> NoGraph]

InitParse ==
    /\ ppc = "in"
    /\ \E d \in ParseInputs : pJ = d.j /\ pForm = d.form /\ pS = d.s
    /\ pRaw = <<>> /\ pBlob = <<>> /\ pOut = NoOutcome
    /\ NormIdle /\ ChunkIdle /\ PipeIdle /\ RetrIdle /\ RetryIdle /\ RouteIdle /\ MoreIdle

\* lines 307-313: the empty text, strip(), the fence
StripFence ==
    /\ ppc = "in"
    /\ IF pS = <<>>
       THEN ppc' = "done" /\ pOut' = Raised /\ UNCHANGED pRaw
       ELSE /\ ppc' = "raw"
            /\ pRaw' = (LET f == JsonFence(Strip(pS))
                        IN  IF f.found THEN f.body ELSE Strip(pS))
            /\ UNCHANGED pOut
    /\ UNCHANGED <<pJ, pForm, pS, pBlob, normVars, chunkVars, pipeVars, retrVars, retryVars, routeVars, moreVars>>

\* lines 315-325: the balanced blob, else from the first { to the last },
\* then the curly quotes
ExtractBlob ==
    /\ ppc = "raw"
    /\ LET b == ExtractBalancedJsonBlob(pRaw)
           i == FindChar(pRaw, "{")
           j == RFindChar(pRaw, "}")
       IN  IF b # <<>>
           THEN ppc' = "blob" /\ pBlob' = NormalizeCurlyQuotes(b) /\ UNCHANGED pOut
           ELSE IF i = -1 \/ j = -1 \/ j <= i
           THEN ppc' = "done" /\ pOut' = Raised /\ UNCHANGED pBlob
           ELSE /\ ppc' = "blob"
                /\ pBlob' = NormalizeCurlyQuotes(SubSeq(pRaw, i + 1, j + 1))
                /\ UNCHANGED pOut
    /\ UNCHANGED <<pJ, pForm, pS, pRaw, normVars, chunkVars, pipeVars, retrVars, retryVars, routeVars, moreVars>>

\* line 328
AutoClose ==
    /\ ppc = "blob"
    /\ ppc' = "closed"
    /\ pBlob' = MaybeCloseSquareBrackets(pBlob)
    /\ UNCHANGED <<pJ, pForm, pS, pRaw, pOut, normVars, chunkVars, pipeVars, retrVars, retryVars, routeVars, moreVars>>

\* lines 331-332
LoadsJson ==
    /\ ppc = "closed"
    /\ JsonLoads(pBlob).ok
    /\ ppc' = "done"
    /\ pOut' = Returned(JsonLoads(pBlob).val)
    /\ UNCHANGED <<pJ, pForm, pS, pRaw, pBlob, normVars, chunkVars, pipeVars, retrVars, retryVars, routeVars, moreVars>>

\* lines 336-351; a set comes out as a list in any order
EvalLiteral ==
    /\ ppc = "closed"
    /\ ~JsonLoads(pBlob).ok
    /\ ppc' = "done"
    /\ LET r == LiteralEval(pBlob)
       IN  IF ~r.ok THEN pOut' = Raised
           ELSE \E p \in Perms(IF r.val.k = "set" THEN Len(r.val.v) ELSE 0) :
                  pOut' = Returned(ToJsonable(
                              IF r.val.k = "set"
                              THEN VSet([n \in 1..Len(r.val.v) |-> r.val.v[p[n]]])
                              ELSE r.val))
    /\ UNCHANGED <<pJ, pForm, pS, pRaw, pBlob, normVars, chunkVars, pipeVars, retrVars, retryVars, routeVars, moreVars>>

NextParse == StripFence \/ ExtractBlob \/ AutoClose \/ LoadsJson \/ EvalLiteral

SpecParse == InitParse /\ [][NextParse]_vars

-----------------------------------------------------------------------------
(* SpecRetry: one call of _retry(fn).                                       *)

\* RETRY_BASE_WAIT = 1.5 seconds, in tenths of a second
RETRY_BASE_WAIT == 15

RateLimit == "RateLimitError"
ApiError  == "APIError"
OtherErr  == "ValueError"
Transient == {RateLimit, ApiError}
Result    == "result"

\* delay stays what it was
SameDelay(delay) == delay

\* delay *= 2
NextDelay(delay) == delay * 2

InitRetry ==
    /\ tpc = "loop"
    /\ tI = 0
    /\ tDelay = RETRY_BASE_WAIT
    /\ tLast = ""
    /\ tCalls = <<>>
    /\ tWaits = <<>>
    /\ tOut = ""
    /\ NormIdle /\ ChunkIdle /\ PipeIdle /\ RetrIdle /\ ParseIdle /\ RouteIdle /\ MoreIdle

\* lines 94-95: fn returns, and _retry returns its value
AttemptReturns ==
    /\ tpc = "loop" /\ tI < RETRY_TRIES
    /\ tCalls' = Append(tCalls, Result)
    /\ tOut' = Result
    /\ tpc' = "returned"
    /\ UNCHANGED <<tI, tDelay, tLast, tWaits, normVars, chunkVars, pipeVars, retrVars, parseVars, routeVars, moreVars>>

\* lines 96-97: fn raises RateLimitError or APIError: sleep, double the delay,
\* next iteration
AttemptTransient ==
    /\ tpc = "loop" /\ tI < RETRY_TRIES
    /\ \E e \in Transient :
          /\ tCalls' = Append(tCalls, e)
          /\ tLast' = e
    /\ tWaits' = Append(tWaits, tDelay)
    /\ tDelay' = NextDelay(tDelay)
    /\ tI' = tI + 1
    /\ UNCHANGED <<tpc, tOut, normVars, chunkVars, pipeVars, retrVars, parseVars, routeVars, moreVars>>

\* lines 98-99: fn raises anything else: break
AttemptOther ==
    /\ tpc = "loop" /\ tI < RETRY_TRIES
    /\ tCalls' = Append(tCalls, OtherErr)
    /\ tLast' = OtherErr
    /\ tpc' = "after"
    /\ UNCHANGED <<tI, tDelay, tWaits, tOut, normVars, chunkVars, pipeVars, retrVars, parseVars, routeVars, moreVars>>

\* range(tries) is used up
LoopExhausted ==
    /\ tpc = "loop" /\ tI = RETRY_TRIES
    /\ tpc' = "after"
    /\ UNCHANGED <<tI, tDelay, tLast, tCalls, tWaits, tOut, normVars, chunkVars, pipeVars, retrVars, parseVars, routeVars, moreVars>>

\* if last: raise last
RaiseLast ==
    /\ tpc = "after"
    /\ tLast # ""
    /\ tOut' = tLast
    /\ tpc' = "raised"
    /\ UNCHANGED <<tI, tDelay, tLast, tCalls, tWaits, normVars, chunkVars, pipeVars, retrVars, parseVars, routeVars, moreVars>>

NextRetry == AttemptReturns \/ AttemptTransient \/ AttemptOther \/ LoopExhausted \/ RaiseLast

SpecRetry == InitRetry /\ [][NextRetry]_vars

-----------------------------------------------------------------------------
(* SpecRoute: the dispatch of one request to a builder.                     *)

MaxFiles == 2
MaxDocs  == 1

EndsWith(s, suf) == Len(s) >= Len(suf) /\ SubSeq(s, Len(s) - Len(suf) + 1, Len(s)) = suf

SufArs == <<"-","a","r","s",".","j","s","o","n">>
SufArd == <<"-","a","r","d",".","j","s","o","n">>
PreAdam == <<"A","D","a","M",":",":">>
PreSdtm == <<"S","D","T","M",":",":">>

TxtAnalysisResults == <<"a","n","a","l","y","s","i","s"," ","r","e","s","u","l","t","s">>
TxtResultDisplay   == <<"r","e","s","u","l","t","d","i","s","p","l","a","y">>
TxtAnalysisResult  == <<"a","n","a","l","y","s","i","s","r","e","s","u","l","t">>

\* _table_mode_for_display with define.xml asked before the ARS/ARD files
TableModeDefineFirst(sess, display_id) ==
    IF \E k \in 1..Len(sess.docs) :
          /\ StartsWith(sess.docs[k].id, PreAdam)
          /\ \E t \in {TxtAnalysisResults, TxtResultDisplay, TxtAnalysisResult} :
                Contains(Lower(sess.docs[k].text), t)
    THEN "define_ar"
    ELSE IF \E k \in 1..Len(sess.files) :
          /\ EndsWith(Lower(sess.files[k].name), SufArs)
                \/ EndsWith(Lower(sess.files[k].name), SufArd)
          /\ Contains(Norm(sess.files[k].text), Norm(display_id))
    THEN "ars_display"
    ELSE "titles_only"

\* _table_mode_for_display(sess_dir, summary, display_id)
TableModeForDisplay(sess, display_id) ==
    IF \E k \in 1..Len(sess.files) :
          /\ EndsWith(Lower(sess.files[k].name), SufArs)
                \/ EndsWith(Lower(sess.files[k].name), SufArd)
          /\ Contains(Norm(sess.files[k].text), Norm(display_id))
    THEN "ars_display"
    ELSE IF \E k \in 1..Len(sess.docs) :
          /\ StartsWith(sess.docs[k].id, PreAdam)
          /\ \E t \in {TxtAnalysisResults, TxtResultDisplay, TxtAnalysisResult} :
                Contains(Lower(sess.docs[k].text), t)
    THEN "define_ar"
    ELSE "titles_only"

\* the dataset labels of the requests
RouteLabels ==
    { LitEndpoint, <<"P","r","o","t","o","c","o","l">>, <<"S","O","A">>,
      LitTable, DsTableCap, <<"T","L","F">>, LitDisplay,
      IdAdsl, <<"t","a","b","l","e","s">>, <<"c","e","l","l">> }

RouteTargets == {DisplayT1, CellT1N, IdAge}

\* the *.json files of a session directory
SessionFiles ==
    { [name |-> <<"a">> \o SufArs,  text |-> <<"x"," ","T","_","1"," ","y">>],
      [name |-> <<"b","-","A","R","D",".","j","s","o","n">>, text |-> <<"t","1">>],
      [name |-> <<"a">> \o SufArs,  text |-> <<"T","-","2">>],
      [name |-> <<"c",".","j","s","o","n">>, text |-> <<"T","-","1">>] }

\* the evidence texts of a session
SessionDocs ==
    { [id |-> PreAdam \o <<"d">>, text |-> <<"A","n","a","l","y","s","i","s"," ","R","e","s","u","l","t","s">>],
      [id |-> PreAdam \o <<"d">>, text |-> <<"I","t","e","m","D","e","f">>],
      [id |-> PreSdtm \o <<"d">>, text |-> <<"R","e","s","u","l","t","D","i","s","p","l","a","y">>] }

InitRoute ==
    /\ upc = "entry"
    /\ uDs \in RouteLabels
    /\ uVar \in RouteTargets
    /\ uSess \in [files : SeqsUpTo(SessionFiles, MaxFiles), docs : SeqsUpTo(SessionDocs, MaxDocs)]
    /\ uRan = <<>> /\ uPath = "" /\ uMode = ""
    /\ NormIdle /\ ChunkIdle /\ PipeIdle /\ RetrIdle /\ ParseIdle /\ RetryIdle /\ MoreIdle

\* main.py 934-937
RouteRequest ==
    /\ upc = "entry"
    /\ IF Lower(uDs) \in {LitEndpoint, LitSoa}
       THEN upc' = "done" /\ uRan' = Append(uRan, "endpoint")
       ELSE upc' = "unified" /\ UNCHANGED uRan
    /\ UNCHANGED <<uDs, uVar, uSess, uPath, uMode,
                   normVars, chunkVars, pipeVars, retrVars, parseVars, retryVars, moreVars>>

\* build_lineage_with_llm_from_session, lines 1201-1213
UnifiedEntry ==
    /\ upc = "unified"
    /\ IF Lower(uDs) \in {LitEndpoint, LitProtocol, LitSoa}
       THEN upc' = "done" /\ uRan' = Append(uRan, "endpoint")
       ELSE IF Lower(uDs) \in {LitTable, LitTlf, LitDisplay}
       THEN upc' = "table" /\ uRan' = Append(uRan, "table")
       ELSE upc' = "done" /\ uRan' = Append(uRan, "variable")
    /\ UNCHANGED <<uDs, uVar, uSess, uPath, uMode,
                   normVars, chunkVars, pipeVars, retrVars, parseVars, retryVars, moreVars>>

\* build_table_lineage_from_session, lines 1465 and 1479
TableRouter ==
    /\ upc = "table"
    /\ upc' = "done"
    /\ IF IsCellSpec(uVar)
       THEN uPath' = "cell" /\ UNCHANGED uMode
       ELSE uPath' = "display" /\ uMode' = TableModeForDisplay(uSess, uVar)
    /\ UNCHANGED <<uDs, uVar, uSess, uRan,
                   normVars, chunkVars, pipeVars, retrVars, parseVars, retryVars, moreVars>>

NextRoute == RouteRequest \/ UnifiedEntry \/ TableRouter

SpecRoute == InitRoute /\ [][NextRoute]_vars

-----------------------------------------------------------------------------
(* SpecEmbed: two builds that run at the same time, each inside its       *)
(* with _use_embed_model(embed_model or EMBED_MODEL): block.  A step is   *)
(* one read or one write of the module global, or one embeddings call.    *)

\* EMBED_MODEL as the module sets it
EmbedDefault == "text-embedding-3-small"

Builds == {1, 2}

\* the embed_model arguments; "" stands for None
EmbedArgs  == {"", "model-a", "model-b"}

\* the most embeddings.create calls one _retrieve makes
MaxEmbedCalls == 2

InitEmbed ==
    /\ EMBED_MODEL = EmbedDefault
    /\ bpc = [b \in Builds |-> "arg"]
    /\ bArg \in [Builds -> EmbedArgs]
    /\ bTmp = [b \in Builds |-> ""]
    /\ bOld = [b \in Builds |-> ""]
    /\ bUsed = [b \in Builds |-> <<>>]
    /\ OldIdle /\ EvidIdle /\ MergeIdle

\* embed_model or EMBED_MODEL
EvalArg(b) ==
    /\ bpc[b] = "arg"
    /\ bTmp' = [bTmp EXCEPT ![b] = IF bArg[b] # "" THEN bArg[b] ELSE EMBED_MODEL]
    /\ bpc' = [bpc EXCEPT ![b] = "save"]
    /\ UNCHANGED <<EMBED_MODEL, bArg, bOld, bUsed, oldVars, evidVars, mergeVars>>

\* old = EMBED_MODEL
SaveOld(b) ==
    /\ bpc[b] = "save"
    /\ bOld' = [bOld EXCEPT ![b] = EMBED_MODEL]
    /\ bpc' = [bpc EXCEPT ![b] = "set"]
    /\ UNCHANGED <<EMBED_MODEL, bArg, bTmp, bUsed, oldVars, evidVars, mergeVars>>

\* if tmp_model: EMBED_MODEL = tmp_model
SetModel(b) ==
    /\ bpc[b] = "set"
    /\ EMBED_MODEL' = IF bTmp[b] # "" THEN bTmp[b] ELSE EMBED_MODEL
    /\ bpc' = [bpc EXCEPT ![b] = "body"]
    /\ UNCHANGED <<bArg, bTmp, bOld, bUsed, oldVars, evidVars, mergeVars>>

\* _embed: _retry(client.embeddings.create, model=EMBED_MODEL, input=group)
EmbedCall(b) ==
    /\ bpc[b] = "body"
    /\ Len(bUsed[b]) < MaxEmbedCalls
    /\ bUsed' = [bUsed EXCEPT ![b] = Append(@, EMBED_MODEL)]
    /\ UNCHANGED <<EMBED_MODEL, bpc, bArg, bTmp, bOld, oldVars, evidVars, mergeVars>>

\* the body of the with block ends: _retrieve returned or raised
LeaveBody(b) ==
    /\ bpc[b] = "body"
    /\ bpc' = [bpc EXCEPT ![b] = "restore"]
    /\ UNCHANGED <<EMBED_MODEL, bArg, bTmp, bOld, bUsed, oldVars, evidVars, mergeVars>>

\* finally: EMBED_MODEL = old
RestoreOld(b) ==
    /\ bpc[b] = "restore"
    /\ EMBED_MODEL' = bOld[b]
    /\ bpc' = [bpc EXCEPT ![b] = "done"]
    /\ UNCHANGED <<bArg, bTmp, bOld, bUsed, oldVars, evidVars, mergeVars>>

NextEmbed ==
    \/ \E b \in Builds : EvalArg(b)
    \/ \E b \in Builds : SaveOld(b)
    \/ \E b \in Builds : SetModel(b)
    \/ \E b \in Builds : EmbedCall(b)
    \/ \E b \in Builds : LeaveBody(b)
    \/ \E b \in Builds : RestoreOld(b)

SpecEmbed == InitEmbed /\ [][NextEmbed]_vars

-----------------------------------------------------------------------------
(* SpecEvidence: the evidence each round of a request reads.  A session    *)
(* directory is given by what its session_summary.json catalogs and by the *)
(* state of each file: ok, missing, unreadable (the read raises) or        *)
(* unparseable (the read succeeds, the content is not of the format).      *)

File(name, ext, st) == [name |-> name, ext |-> ext, st |-> st]
NoFile == File("", "", "none")

\* an evidence pair (doc_id, text): the prefix of the doc_id, the file, and
\* what the text is: content | error (a message in place of the content) |
\* empty (a header with no row) | raw (the bytes of a JSON file not decoded)
Pair(label, name, text) == [label |-> label, name |-> name, text |-> text]

\* what a reader or collector did: raised, or returned these pairs / this text
Raises == [err |-> TRUE, pairs |-> <<>>]
Gives(pairs) == [err |-> FALSE, pairs |-> pairs]

\* the blocks of a collector in order: the first that raises ends it
Then(r, b) == IF r.err \/ b.err THEN Raises ELSE Gives(r.pairs \o b.pairs)

\* _read_text_file(p): both attempts are p.read_text
ReadTextFile(f, label) ==
    IF f.st = "unreadable" THEN Raises ELSE Gives(<<Pair(label, f.name, "content")>>)

\* _read_json_file_text(p): json.loads fails, the text is returned as read
ReadJsonFileText(f, label) ==
    IF f.st = "unreadable" THEN Raises
    ELSE IF f.st = "unparseable" THEN Gives(<<Pair(label, f.name, "raw")>>)
    ELSE Gives(<<Pair(label, f.name, "content")>>)

\* _read_excel_as_text(p): every failure becomes the text [EXCEL_READ_ERROR ...]
ReadExcelAsText(f, label) ==
    IF f.st = "ok" THEN Gives(<<Pair(label, f.name, "content")>>)
    ELSE Gives(<<Pair(label, f.name, "error")>>)

MarkupExts == {".xml", ".html", ".htm"}
ExcelExts  == {".xlsx", ".xlsm", ".xls"}

\* _read_define_or_spec_text(p)
ReadDefineOrSpecText(f, label) ==
    IF f.ext \in MarkupExts THEN ReadTextFile(f, label)
    ELSE IF f.ext \in ExcelExts THEN ReadExcelAsText(f, label)
    ELSE ReadTextFile(f, label)

\* _read_crf_index_csv_text(p): rows without a var column give [EMPTY]
ReadCrfIndexCsvText(f, label) ==
    IF f.st = "unreadable" THEN Raises
    ELSE IF f.st = "unparseable" THEN Gives(<<Pair(label, f.name, "empty")>>)
    ELSE Gives(<<Pair(label, f.name, "content")>>)

RECURSIVE AddDefineBlock(_, _, _)
\* add_define_block(std_key, label) over the sourceFiles of the first entity
\* that has any: the first file that exists is read if its suffix is known
AddDefineBlock(files, i, label) ==
    IF i > Len(files) THEN Gives(<<>>)
    ELSE IF files[i].st = "missing" THEN AddDefineBlock(files, i + 1, label)
    ELSE IF files[i].ext \in MarkupExts \cup ExcelExts
    THEN ReadDefineOrSpecText(files[i], label)
    ELSE AddDefineBlock(files, i + 1, label)

\* the block of one optional file named by the summary
OptionalFile(f, read) ==
    IF f.st \in {"none", "missing"} THEN Gives(<<>>) ELSE read

RECURSIVE ArsFiles(_, _)
\* for p in sorted(sess_dir.glob("*.json")): the -ars.json and -ard.json files
ArsFiles(files, i) ==
    IF i > Len(files) THEN Gives(<<>>)
    ELSE Then(ReadJsonFileText(files[i], "ARS"), ArsFiles(files, i + 1))

\* _collect_evidence_texts(sess_dir, summary)
CollectEvidenceTexts(sess) ==
    Then(AddDefineBlock(sess.adam, 1, "ADaM"),
    Then(AddDefineBlock(sess.sdtm, 1, "SDTM"),
    Then(OptionalFile(sess.crf, ReadCrfIndexCsvText(sess.crf, "CRF_INDEX")),
    Then(OptionalFile(sess.proto, ReadTextFile(sess.proto, "PROTOCOL")),
    Then(IF sess.titles THEN Gives(<<Pair("TLF_TITLES", "", "content")>>) ELSE Gives(<<>>),
    Then(IF sess.usdm THEN Gives(<<Pair("USDM", "", "content")>>) ELSE Gives(<<>>),
         ArsFiles(sess.ars, 1)))))))

\* _collect_ars_texts_only(sess_dir)
CollectArsTextsOnly(sess) == ArsFiles(sess.ars, 1)

\* _load_session_summary(sess_dir), then the collector on the summary
LoadSummaryAndCollect(sess) ==
    IF sess.summary # "ok" THEN Raises ELSE CollectEvidenceTexts(sess)

Session(summary, adam, sdtm, crf, proto, titles, usdm, ars) ==
    [summary |-> summary, adam |-> adam, sdtm |-> sdtm, crf |-> crf, proto |-> proto,
     titles |-> titles, usdm |-> usdm, ars |-> ars]

DefineXml(st) == File("define.xml", ".xml", st)
SpecXlsx(st)  == File("spec.xlsx", ".xlsx", st)
CrfCsv(st)    == File("crf_index.csv", ".csv", st)
ProtoTxt(st)  == File("protocol.txt", ".txt", st)
ArsJson(st)   == File("t1-ars.json", ".json", st)
ArdJson(st)   == File("t1-ard.json", ".json", st)

\* session directories
SessionPool ==
    { \* every kind of evidence, every file readable
      Session("ok", <<DefineXml("ok")>>, <<SpecXlsx("ok")>>, CrfCsv("ok"), ProtoTxt("ok"),
              TRUE, TRUE, <<ArdJson("ok"), ArsJson("ok")>>),
      \* analysis results only
      Session("ok", <<>>, <<>>, NoFile, NoFile, FALSE, FALSE, <<ArsJson("ok")>>),
      \* cataloged files that are gone, a data file before the define file
      Session("ok", <<File("adsl.xpt", ".xpt", "ok"), DefineXml("missing"), SpecXlsx("ok")>>,
              <<DefineXml("missing")>>, CrfCsv("missing"), ProtoTxt("missing"),
              TRUE, FALSE, <<ArsJson("ok")>>),
      \* files that cannot be decoded
      Session("ok", <<SpecXlsx("unparseable")>>, <<>>, CrfCsv("unparseable"), ProtoTxt("ok"),
              FALSE, FALSE, <<ArsJson("unparseable")>>),
      \* files that cannot be read
      Session("ok", <<DefineXml("ok")>>, <<>>, NoFile, ProtoTxt("unreadable"),
              FALSE, FALSE, <<ArsJson("ok")>>),
      Session("ok", <<DefineXml("unreadable")>>, <<>>, NoFile, NoFile,
              FALSE, FALSE, <<ArdJson("ok"), ArsJson("unreadable")>>),
      Session("ok", <<SpecXlsx("unreadable")>>, <<>>, CrfCsv("unreadable"), NoFile,
              FALSE, FALSE, <<>>),
      \* a directory whose upload is not yet processed; a broken summary
      Session("missing", <<>>, <<>>, NoFile, NoFile, FALSE, FALSE, <<>>),
      Session("unparseable", <<>>, <<>>, NoFile, NoFile, FALSE, FALSE, <<ArsJson("ok")>>) }

\* uploads that may arrive while a request runs; chunks _retrieve returns
MaxUploads == 1
MaxTop     == 2

InitEvidence ==
    /\ dirs \in {<<>>} \cup { <<s>> : s \in SessionPool }
    /\ vpc = "latest"
    /\ vKind \in {"variable", "cell"}
    /\ vRound = "base"
    /\ vSess = 0
    /\ vRes = Gives(<<>>)
    /\ vLog = <<>>
    /\ vEnd = ""
    /\ vUploads = 0
    /\ OldIdle /\ EmbedIdle /\ MergeIdle

\* an exception in a round: _ensure_ars_connectivity swallows it, the
\* variable builder's except clause returns a graph, else it is raised
RoundFails ==
    /\ vpc' = "done"
    /\ vEnd' = IF vRound = "repair" \/ (vKind = "variable" /\ vRound = "backtrace")
               THEN "returned" ELSE "raised"

\* main.py _save_uploads: a new session_<time> directory, the newest
Upload ==
    /\ vpc \notin {"idle", "done"}
    /\ vUploads < MaxUploads
    /\ \E s \in SessionPool : dirs' = Append(dirs, s)
    /\ vUploads' = vUploads + 1
    /\ UNCHANGED <<vpc, vKind, vRound, vSess, vRes, vLog, vEnd, oldVars, embedVars, mergeVars>>

\* sess = _latest_session()
LatestSession ==
    /\ vpc = "latest"
    /\ IF dirs = <<>>
       THEN RoundFails /\ UNCHANGED vSess
       ELSE vSess' = Len(dirs) /\ vpc' = "collect" /\ UNCHANGED vEnd
    /\ UNCHANGED <<dirs, vKind, vRound, vRes, vLog, vUploads, oldVars, embedVars, mergeVars>>

\* the collector of the round
CollectorOf(k, round, sess) ==
    IF k = "cell" /\ round = "base" THEN CollectArsTextsOnly(sess)
    ELSE LoadSummaryAndCollect(sess)

\* pairs = <collector>(sess ...), and  if not pairs / if not chunks: return
Collect ==
    /\ vpc = "collect"
    /\ LET r == CollectorOf(vKind, vRound, dirs[vSess])
       IN  /\ vRes' = r
           /\ IF r.err THEN RoundFails
              ELSE IF vRound = "base" /\ r.pairs = <<>>
              THEN vpc' = "done" /\ vEnd' = "returned"
              ELSE vpc' = "retrieve" /\ UNCHANGED vEnd
    /\ UNCHANGED <<dirs, vKind, vRound, vSess, vLog, vUploads, oldVars, embedVars, mergeVars>>

\* top_chunks = _retrieve(client, chunks, query, k=TOP_K): chunks of some of
\* the pairs, which go into the messages of the round
RetrieveTop ==
    /\ vpc = "retrieve"
    /\ \E top \in SUBSET Range(vRes.pairs) :
          /\ Cardinality(top) <= MaxTop
          /\ (vRes.pairs # <<>>) => (top # {})
          /\ vLog' = Append(vLog, [round |-> vRound, sess |-> vSess, prompt |-> top])
    /\ vpc' = "next"
    /\ UNCHANGED <<dirs, vKind, vRound, vSess, vRes, vEnd, vUploads, oldVars, embedVars, mergeVars>>

\* the rounds that may follow a round
LaterRounds(k, round) ==
    IF k = "cell" THEN (IF round = "base" THEN {"backtrace", "repair"}
                        ELSE IF round = "backtrace" THEN {"repair"} ELSE {})
    ELSE (IF round = "base" THEN {"backtrace"} ELSE {})

\* the graph of the round calls for a later round
NextRound ==
    /\ vpc = "next"
    /\ \E r \in LaterRounds(vKind, vRound) : vRound' = r
    /\ vpc' = "latest"
    /\ UNCHANGED <<dirs, vKind, vSess, vRes, vLog, vEnd, vUploads, oldVars, embedVars, mergeVars>>

\* no later round: the builder returns
EvidenceReturn ==
    /\ vpc = "next"
    /\ vpc' = "done"
    /\ vEnd' = "returned"
    /\ UNCHANGED <<dirs, vKind, vRound, vSess, vRes, vLog, vUploads, oldVars, embedVars, mergeVars>>

NextEvidence ==
    \/ Upload
    \/ LatestSession
    \/ Collect
    \/ RetrieveTop
    \/ NextRound
    \/ EvidenceReturn

SpecEvidence == InitEvidence /\ [][NextEvidence]_vars

-----------------------------------------------------------------------------
(* SpecMerge: a base graph is normalized, then an augmentation graph is    *)
(* merged into it.                                                         *)

MaxMergeNodes == 2
MaxMergeEdges == 1

IdX1 == <<"X","1">>

\* nodes and edges of a base answer
MergeBaseNodes ==
    { Node(IdAdslAge, "adam variable", "", ExplDirect),
      Node(IdAdslAge, "target",        "", ExplVarTarget),
      Node(IdDmAge,   "sdtm",          "", ExplUntagged),
      Node(IdX1,      "concept",       "", ExplDirect) }

MergeBaseEdges ==
    { Edge(IdDmAge, IdAdslAge,   Absent, Absent, ExplDirect),
      Edge(IdDmAge, IdAdslAgeSp, Absent, Absent, ExplDirect) }

\* nodes of an augmentation answer: a new node, and nodes with the id of a
\* base node that bring a label and another type
MergeAugNodes ==
    { Node(IdDmAge,   "sdtm variable", "", ExplDirect),
      Node(IdAdslAge, "sdtm variable", "Age in years", ExplUntagged),
      Node(IdX1,      "tlf display",   "TLF 14.1", ExplDirect) }

InitMerge ==
    /\ mpc = "in"
    /\ mRaw \in [ variable : {IdAdslAge},
                   dataset  : {IdAdsl},
                   summary  : {<<>>},
                   nodes    : SeqsUpTo(MergeBaseNodes, MaxMergeNodes),
                   edges    : SeqsUpTo(MergeBaseEdges, MaxMergeEdges),
                   gaps     : {<<>>, <<ModelGap>>} ]
    /\ mAug \in [ variable : {IdDmAge},
                   dataset  : {NoStr, LitTable},
                   summary  : {<<>>},
                   nodes    : SeqsUpTo(MergeAugNodes, 1),
                   edges    : {<<>>, <<PlainEdge(IdDmAge, IdAdslAge)>>},
                   gaps     : {<<>>, <<AugGap>>} ]
    /\ mBase = EmptyGraph
    /\ mOut = EmptyGraph
    /\ OldIdle /\ EmbedIdle /\ EvidIdle

\* out = _validate_and_fix_graph(out) of a builder
NormalizeBase ==
    /\ mpc = "in"
    /\ mBase' = ValidateAndFixGraph(mRaw)
    /\ mpc' = "base"
    /\ UNCHANGED <<mRaw, mAug, mOut, oldVars, embedVars, evidVars>>

\* merged = _merge_graphs(base_graph, aug_graph)
MergeAug ==
    /\ mpc = "base"
    /\ mOut' = MergeGraphs(mBase, mAug)
    /\ mpc' = "merged"
    /\ UNCHANGED <<mRaw, mBase, mAug, oldVars, embedVars, evidVars>>

NextMerge == NormalizeBase \/ MergeAug

SpecMerge == InitMerge /\ [][NextMerge]_vars

-----------------------------------------------------------------------------
(* Properties of the normalizer (SpecNorm).                                *)

OutIds(g) == {g.nodes[k].id : k \in 1..Len(g.nodes)}

Min(S) == CHOOSE x \in S : \A y \in S : x <= y

\* the input nodes whose id is that of n once stripped
SameKey(n) ==
    LET key == Strip(n.id)
    IN  {j \in 1..Len(g0.nodes) : Strip(g0.nodes[j].id) = key}

\* an input edge with an endpoint that is missing or is no node id of the output
Dangling(e) ==
    \/ RenameKeys(e).from \notin OutIds(g1)
    \/ RenameKeys(e).to \notin OutIds(g1)

\* C4: after normalization every edge of the output has its from and its to
\* among the node ids of the output, and every input edge that had not is
\* absent from the output and has produced exactly one gap.
C4_EdgeEndpointsAreOutputNodes ==
    npc = "once" =>
        /\ \A k \in 1..Len(g1.edges) :
              g1.edges[k].from \in OutIds(g1) /\ g1.edges[k].to \in OutIds(g1)
        /\ Len(g1.edges) =
              Cardinality({j \in 1..Len(g0.edges) : ~Dangling(g0.edges[j])})
        /\ Len(g1.gaps) = Len(g0.gaps) +
              Cardinality({j \in 1..Len(g0.edges) : Dangling(g0.edges[j])})

C6_NormalizeIdempotent == npc = "twice" => g2 = g1

\* the (type, normalized id) key of C7: the id stripped and in lower case
TypeIdKey(n) == <<n.type, Lower(Strip(n.id))>>

\* C7 as stated: after normalization no two nodes share the same
\* (type, normalized id) key, ids that differ only in letter case or
\* surrounding whitespace being one key.
C7_UniqueTypeAndNormalizedId ==
    npc = "once" =>
        \A i, j \in 1..Len(g1.nodes) :
            i # j => TypeIdKey(g1.nodes[i]) # TypeIdKey(g1.nodes[j])

\* C7 as amended: after normalization no two nodes share the same id once
\* surrounding whitespace is stripped (letter case still distinguishes);
\* input nodes with the same stripped id are merged into one node that keeps
\* the first occurrence's id and its non-empty label and explanation, an
\* empty one being filled from the first later duplicate that has it.
C7_UniqueStrippedIdFirstWins ==
    npc = "once" =>
        /\ \A i, j \in 1..Len(g1.nodes) :
              i # j => Strip(g1.nodes[i].id) # Strip(g1.nodes[j].id)
        /\ \A k \in 1..Len(g1.nodes) :
              LET n      == g1.nodes[k]
                  dups   == SameKey(n)
                  labels == {j \in dups : g0.nodes[j].label # ""}
              IN  /\ dups # {}
                  /\ n.id = g0.nodes[Min(dups)].id
                  /\ n.label = IF labels = {} THEN ""
                               ELSE g0.nodes[Min(labels)].label

\* C7 witness: two input nodes whose ids differ only by a leading blank
\* became one node with the first one's id and, its own label being empty,
\* the second one's label.
C7_Witness ==
    /\ npc = "once"
    /\ \E k \in 1..Len(g1.nodes) :
          /\ Cardinality(SameKey(g1.nodes[k])) >= 2
          /\ \E j \in SameKey(g1.nodes[k]) : g0.nodes[j].id # g1.nodes[k].id
          /\ g0.nodes[Min(SameKey(g1.nodes[k]))].label = ""
          /\ g1.nodes[k].label # ""

\* the closed node-type vocabulary
NodeTypeVocabulary ==
    { "protocol section", "protocol endpoint", "crf page", "sdtm dataset",
      "sdtm variable", "adam dataset", "adam variable", "tlf display",
      "tlf cell", "endpoint", "concept" }

\* C9: after normalization the type of every node is a member of the closed
\* node-type vocabulary, whatever type the model supplied.
C9_TypesInVocabulary ==
    npc = "once" =>
        \A k \in 1..Len(g1.nodes) : g1.nodes[k].type \in NodeTypeVocabulary


-----------------------------------------------------------------------------
(* Properties of the chunker (SpecChunk).                                  *)

RECURSIVE NewParts(_, _, _)
\* the chunks from the k-th on, each without the part that lies before
\* `covered` (the overlap with the chunks before it), concatenated
NewParts(chunks, k, covered) ==
    IF k > Len(chunks) THEN <<>>
    ELSE LET c    == chunks[k]
             skip == covered - c.from
         IN  SubSeq(c.text, skip + 1, Len(c.text))
                 \o NewParts(chunks, k + 1, MaxOf(covered, c.to))

\* C10: the chunks _chunk_text returns, in order and with the overlapping
\* parts ignored, cover the input text exactly once (no chunk starts after
\* the end of the one before it, and the parts concatenate to the text), and
\* every chunk's text is at most max_chars long.
C10_ChunksCoverTextOnce ==
    cpc = "done" =>
        /\ \A k \in 1..Len(cChunks) :
              /\ cChunks[k].from <= (IF k = 1 THEN 0 ELSE cChunks[k - 1].to)
              /\ Len(cChunks[k].text) <= cMax
        /\ NewParts(cChunks, 1, 0) = cText

\* C10 witness: _chunk_text has returned three or more chunks of a text,
\* one of them cut short at a line break.
C10_Witness ==
    /\ cpc = "done"
    /\ Len(cChunks) >= 3
    /\ \E k \in 1..(Len(cChunks) - 1) :
          /\ Len(cChunks[k].text) < cMax
          /\ cText[cChunks[k].to + 1] = "\n"

-----------------------------------------------------------------------------
(* Properties of a request (Spec).                                         *)

\* the keys of a lineage graph (nodes, edges and gaps are those of "lineage")
GraphKeys == {"variable", "dataset", "summary", "nodes", "edges", "gaps"}

\* the chat call of the builder's own prompt raised on every try of the
\* primary model and then on every try of the fallback model
BaseCallExhausted ==
    /\ stage = "base"
    /\ llm = [model |-> "fallback", tries |-> RETRY_TRIES]
    /\ exc = ExcApi

\* C1: whatever fails underneath, analyze_variable returns, without raising,
\* an object with the keys variable, dataset, summary and lineage.nodes,
\* lineage.edges, lineage.gaps.
C1_EntryPointAlwaysReturnsGraph ==
    pc = "done" =>
        /\ DOMAIN resp = GraphKeys
        /\ bres = "raised" =>
              /\ Len(resp.nodes) = 1 /\ resp.edges = <<>>
              /\ resp.gaps = << StrGap(<<"Lineage service error: ", exc>>) >>

\* C1 witness: the model call failed on every try of both models, the
\* builder raised, and analyze_variable returned its one-node graph.
C1_Witness ==
    /\ pc = "done"
    /\ BaseCallExhausted
    /\ bres = "raised"
    /\ DOMAIN resp = GraphKeys
    /\ resp.nodes[1].explanation = "[general] Error path."

\* C2: when the chat call raises on every retry of the primary and of the
\* fallback model, the builder returns instead of raising, and its graph has
\* exactly one node, with the id of the requested target, and a gap.
C2_BuilderReturnsWhenModelFails ==
    (pc = "done" /\ BaseCallExhausted) =>
        /\ bres = "returned"
        /\ Len(resp.nodes) = 1
        /\ Lower(resp.nodes[1].id) = Lower(TargetId(kind, ds, var))
        /\ resp.gaps # <<>>

\* no chunk can be assembled for the request
NoChunks == IF kind = "cell" THEN ~env.ars ELSE ~env.evidence

NoEvidenceGap == StrGap(<<"No evidence found.">>)
NoArsGap      == StrGap(<<"No ARS/ARD files present.">>)

\* exactly the target's node, and no edge
OnlyTargetNode(g) ==
    /\ Len(g.nodes) = 1
    /\ g.nodes[1].id = TargetId(kind, ds, var)
    /\ g.edges = <<>>

BaseNormalized ==
    /\ stage = "base" /\ raw.shape = "object" /\ exc = ""
    /\ \/ pc = "backtrace"
       \/ pc = "return" /\ kind = "endpoint"

\* the nodes of the model's answer as the builder tests them for the target
AnswerNodes == SubSeq(WithTarget(kind, ds, var, raw).nodes, 1, Len(raw.nodes))

\* a node of the answer has the target's id but for surrounding whitespace
HasTwin ==
    \E k \in 1..Len(AnswerNodes) :
        Strip(AnswerNodes[k].id) = Strip(TargetId(kind, ds, var))

\* C8 as stated: when the model call and the parsing succeed, the graph the
\* builder returns has a node for the requested target, also when the
\* builder had to append it and no edge refers to it.
C8_ReturnedGraphHasTargetNode ==
    (pc = "done" /\ bres = "returned" /\ stage = "base" /\ raw.shape = "object"
        /\ exc = "" /\ TargetId(kind, ds, var) # NoStr) =>
        \E k \in 1..Len(resp.nodes) :
            Lower(Strip(resp.nodes[k].id)) = Lower(TargetId(kind, ds, var))

\* C8 as amended: when the builder appended the node of a non-empty target
\* and no node of the answer has that id but for surrounding whitespace,
\* then after normalization the node of an endpoint, display or cell target
\* is present, and the node of a variable target is present exactly when a
\* kept edge names its id as from or to: with no such edge it is pruned.
\* The same holds of the returned graph when no augmentation was merged.
C8_AppendedTargetKeptUnlessOrphan ==
    LET t == TargetId(kind, ds, var)
        Holds(g) == IF kind = "variable"
                    THEN (t \in OutIds(g) <=> t \in UsedIds(g.edges))
                    ELSE t \in OutIds(g)
    IN  /\ (BaseNormalized /\ appended /\ t # NoStr /\ ~HasTwin) => Holds(out)
        /\ (pc = "done" /\ bres = "returned" /\ stage = "base" /\ raw.shape = "object"
              /\ exc = "" /\ appended /\ t # NoStr /\ ~HasTwin) => Holds(resp)

\* C8 witness: the builder appended the node of a variable target that no
\* edge names, and the normalized graph does not hold it.
C8_Witness ==
    /\ BaseNormalized /\ appended /\ kind = "variable" /\ ~HasTwin
    /\ TargetId(kind, ds, var) \notin OutIds(out)
    /\ out.nodes # <<>>

-----------------------------------------------------------------------------
(* More properties of the chunker (SpecChunk).                             *)

\* C11: with overlap < max_chars the cursor of _chunk_text strictly advances
\* at every pass of the loop (so the loop ends and no run of empty chunks is
\* produced).
C11_CursorStrictlyAdvances ==
    [][(cOverlap < cMax /\ cChunks' # cChunks) => ci' > ci]_vars

\* C23: after a chunk that ends at the boundary j, the next chunk starts at
\* j - overlap whenever that moves the cursor forward, so that consecutive
\* chunks share overlap characters.
C23_NextChunkStartsOverlapBack ==
    [][ cChunks' # cChunks =>
          LET j == cChunks'[Len(cChunks')].to
          IN  (j - cOverlap > ci) => ci' = j - cOverlap ]_vars

-----------------------------------------------------------------------------
(* Properties of the retrieval (SpecRetrieve).                             *)

\* the positions returned are positions of the input list, no one twice
DistinctMembers ==
    /\ \A i \in 1..Len(rOut) : rOut[i] \in 1..Len(rChunks)
    /\ \A i, j \in 1..Len(rOut) : i # j => rOut[i] # rOut[j]

\* C12 as stated: for any chunks, query and k, _retrieve returns at most k
\* chunks, distinct members of the input list, and returns none exactly when
\* the input list is empty.
C12_AtMostKAndEmptyIffNoChunks ==
    rpc = "done" =>
        /\ Len(rOut) <= rK
        /\ DistinctMembers
        /\ (rOut = <<>>) <=> (rChunks = <<>>)

\* C12 as amended: for k >= 1, _retrieve returns at most k chunks, distinct
\* members of the input list, and none exactly when the list is empty; for
\* k = 0 it returns none whatever the list; for k < 0 it returns all chunks
\* but the -k least similar ones (none of an empty list).
C12_AtMostKForPositiveK ==
    rpc = "done" =>
        /\ DistinctMembers
        /\ rK >= 1 => /\ Len(rOut) <= rK
                      /\ (rOut = <<>>) <=> (rChunks = <<>>)
        /\ rK = 0 => rOut = <<>>
        /\ rK < 0 => Len(rOut) = MaxOf(Len(rChunks) + rK, 0)

\* C12 witness: of three chunks, two of them equal, _retrieve returned two
\* with k = 2.
C12_Witness ==
    /\ rpc = "done"
    /\ Len(rChunks) = 3 /\ rK = 2 /\ Len(rOut) = 2
    /\ \E i, j \in 1..3 : i # j /\ rChunks[i] = rChunks[j]

-----------------------------------------------------------------------------
(* Properties of the parser (SpecParse).                                    *)

ParseDone == ppc = "done"

\* C13: the strict JSON text of a graph object, that text in a json fence and
\* that text with single quotes all parse to a mapping equal to the object;
\* and whatever _parse_llm_json returns is a mapping.
C13_ParsesEveryFormToTheObject ==
    ParseDone =>
       /\ pForm \in {"strict", "fenced", "single"}
             => pOut.kind = "return" /\ pOut.val.k = pJ.k /\ pOut.val = pJ
       /\ pOut.kind = "return" => pOut.val.k = "dict"

\* the value under a key of a mapping, NoGraph if there is none
ValueAt(x, key) ==
    IF x.k = "dict" /\ \E i \in 1..Len(x.v) : x.v[i][1] = VStr(key)
    THEN x.v[CHOOSE i \in 1..Len(x.v) : x.v[i][1] = VStr(key)][2]
    ELSE NoGraph

LineageNodesIsList(x) == ValueAt(ValueAt(x, KLineage), KNodes).k = "list"

RECURSIVE NestedFrom(_, _, _)
\* the brackets and braces of s from j on close the open ones, innermost
\* first, quoted text apart
NestedFrom(s, j, open) ==
    LET n == NextOf(s, j, {"{", "}", "[", "]", SQ, DQ})
    IN  IF n = 0 THEN open = <<>>
        ELSE IF s[n] \in {SQ, DQ}
             THEN (LET e == StringEnd(s, n + 1, s[n])
                   IN  e # 0 /\ NestedFrom(s, e + 1, open))
        ELSE IF s[n] \in {"{", "["} THEN NestedFrom(s, n + 1, <<s[n]>> \o open)
        ELSE /\ open # <<>>
             /\ Head(open) = (IF s[n] = "}" THEN "{" ELSE "[")
             /\ NestedFrom(s, n + 1, Tail(open))

ProperlyNested(s) == NestedFrom(s, 1, <<>>)

\* C14: a graph text with exactly one array left without its ] (braces
\* balanced), the array being anywhere, nested in the lineage object
\* included: the auto-close step leaves brackets and braces properly nested
\* and _parse_llm_json returns a mapping whose lineage.nodes is a list.
C14_UnclosedArrayIsClosedInPlace ==
    pForm = "unclosed" =>
       /\ ppc \in {"closed", "done"} => ProperlyNested(pBlob)
       /\ ParseDone => pOut.kind = "return" /\ LineageNodesIsList(pOut.val)

-----------------------------------------------------------------------------
(* More properties of a request (Spec).                                     *)

\* the fallback model is asked: the step from the primary call to the fallback
FallbackStarts == llm.model = "primary" /\ llm'.model = "fallback"

\* the primary call has just raised: its last try failed or its answer did
\* not parse, and no answer was taken
PrimaryRaised == pc = "chat" /\ pc' = "chat" /\ raw' = raw

\* the fallback call raises: the round ends without an answer
FallbackRaises == pc = "chat" /\ llm.model = "fallback" /\ pc' \in {"return", "except"}

\* C15: in the base, backtrace and repair rounds the fallback model is called
\* once, exactly when the primary call raised, never after an answer of the
\* primary; when the fallback raises too no model is asked again in the round
\* and the exception leaves the function that made the call.
C15_FallbackOnceThenExceptionPropagates ==
    [][ /\ FallbackStarts => PrimaryRaised
        /\ (pc = "chat" /\ llm.model = "primary" /\ pc' \in {"post", "merge"})
              => llm'.model = "primary"
        /\ (pc = "chat" /\ llm.model = "fallback" /\ pc' = "chat")
              => llm'.model = "fallback"
        /\ FallbackRaises => exc' # "" ]_vars

StageRank(s) == CASE s = "base" -> 0 [] s = "backtrace" -> 1 [] OTHER -> 2

\* a round begins: the builder goes to its retrieval
RoundBegins == pc # "retrieve" /\ pc' = "retrieve"

\* C17: in one request the backtrace round and the repair round each run at
\* most once, a merged graph never starts a round again, and there are at
\* most three logical chat calls (base, backtrace, repair), each of them the
\* primary model and at most one fallback.
C17_EachRoundAtMostOnce ==
    [][ /\ RoundBegins =>
              \/ pc = "open" /\ stage' = "base"
              \/ StageRank(stage') > StageRank(stage)
        /\ (pc # "chat" /\ pc' = "chat") => pc = "retrieve" /\ stage' = stage
        /\ (pc = "chat" /\ pc' = "chat") =>
              /\ stage' = stage
              /\ llm.model = "fallback" => llm'.model = "fallback"
        /\ pc = "merge" => pc' \notin {"retrieve", "chat", "backtrace"} ]_vars

\* a request returned after the repair round with an SDTM variable still
\* unlinked: the merge did not start the round again
C17_Witness ==
    /\ pc = "done" /\ bres = "returned" /\ stage = "repair"
    /\ raw = Raw(NoStr, <<>>, <<>>, <<>>) /\ NeedsRepair(resp)

\* the SDTM-variable nodes of a graph that no edge joins to an ADaM-variable node
UnlinkedSdtm(graph) ==
    LET Ids(t) == { graph.nodes[k].id : k \in { k \in 1..Len(graph.nodes) :
                                                  graph.nodes[k].type = t } }
        adam == Ids("adam variable")
    IN  { s \in Ids("sdtm variable") :
            ~\E k \in 1..Len(graph.edges) :
                \/ graph.edges[k].from = s /\ graph.edges[k].to \in adam
                \/ graph.edges[k].to = s /\ graph.edges[k].from \in adam }

\* a gap of the graph is about the node id
GapAbout(graph, id) ==
    \E k \in 1..Len(graph.gaps) : graph.gaps[k].source = id \/ graph.gaps[k].target = id

\* C18: in a graph returned for a table-cell request every SDTM-variable node
\* has an edge to or from an ADaM-variable node, or a gap about it; whatever
\* the repair round answered, and when it failed.
C18_NoUnexplainedOrphanSdtm ==
    (pc = "done" /\ kind = "cell" /\ bres = "returned") =>
        \A id \in UnlinkedSdtm(resp) : GapAbout(resp, id)

\* C20: when the model call of a table-cell request succeeds, the returned
\* graph has a tlf cell node whose id is the caller's cell spec, character
\* for character, whatever ids the model wrote, an id in another letter case
\* or with surrounding whitespace included.
C20_CellNodeIdIsTheSpec ==
    (pc = "done" /\ kind = "cell" /\ bres = "returned" /\ raw.shape = "object") =>
        \E k \in 1..Len(resp.nodes) :
            resp.nodes[k].id = var /\ resp.nodes[k].type = "tlf cell"

-----------------------------------------------------------------------------
(* Properties of _retry (SpecRetry).                                        *)

RECURSIVE Pow2(_)
Pow2(n) == IF n = 0 THEN 1 ELSE 2 * Pow2(n - 1)

\* C16: fn is called at most RETRY_TRIES times; a call follows another only
\* when that one raised a rate-limit or API error, and after a wait of
\* RETRY_BASE_WAIT * 2^(n-1) following call n; a result is returned at once;
\* another exception is raised at once; after the fifth transient failure
\* the last error is raised.
C16_BoundedRetryWithDoublingWait ==
    /\ Len(tCalls) <= RETRY_TRIES
    /\ \A n \in 1..(Len(tCalls) - 1) :
          /\ tCalls[n] \in Transient
          /\ n <= Len(tWaits) /\ tWaits[n] = RETRY_BASE_WAIT * Pow2(n - 1)
    /\ tCalls # <<>> /\ tCalls[Len(tCalls)] \notin Transient => tpc # "loop"
    /\ tpc = "returned" => tCalls[Len(tCalls)] = Result /\ tOut = Result
    /\ tpc = "raised" =>
          /\ tOut = tCalls[Len(tCalls)]
          /\ tOut = OtherErr \/ (tOut \in Transient /\ Len(tCalls) = RETRY_TRIES)
    /\ (tpc = "after" /\ tLast \in Transient) => Len(tCalls) = RETRY_TRIES

\* the fifth transient failure, raised
C16_Witness ==
    /\ tpc = "raised" /\ Len(tCalls) = RETRY_TRIES /\ tOut \in Transient
    /\ tWaits[4] = 120

-----------------------------------------------------------------------------
(* Properties of the routing (SpecRoute).                                   *)

\* an ARS or ARD file of the session names the display
ArsNamesDisplay ==
    \E k \in 1..Len(uSess.files) :
        /\ \E suf \in {SufArs, SufArd} : EndsWith(Lower(uSess.files[k].name), suf)
        /\ Contains(Norm(uSess.files[k].text), Norm(uVar))

\* an ADaM define text of the session holds Analysis Results
DefineHoldsResults ==
    \E k \in 1..Len(uSess.docs) :
        /\ StartsWith(uSess.docs[k].id, PreAdam)
        /\ \E t \in {TxtAnalysisResults, TxtResultDisplay, TxtAnalysisResult} :
              Contains(Lower(uSess.docs[k].text), t)

\* C19: the label, letter case apart, decides the builder: endpoint, protocol,
\* soa the endpoint builder; table, tlf, display the table builder, on the
\* cell path exactly when the target holds "|", else on the display path with
\* the mode ars_display before define_ar before titles_only; any other label
\* the variable builder; and exactly one builder runs.
C19_RoutingIsADecisionTable ==
    upc = "done" =>
       /\ Len(uRan) = 1
       /\ Lower(uDs) \in {LitEndpoint, LitProtocol, LitSoa} <=> uRan = <<"endpoint">>
       /\ Lower(uDs) \in {LitTable, LitTlf, LitDisplay} <=> uRan = <<"table">>
       /\ uRan = <<"table">> =>
             /\ uPath = "cell" <=> "|" \in Range(uVar)
             /\ uPath = "display" <=> "|" \notin Range(uVar)
             /\ uPath = "display" =>
                   uMode = IF ArsNamesDisplay THEN "ars_display"
                           ELSE IF DefineHoldsResults THEN "define_ar"
                           ELSE "titles_only"
       /\ uRan # <<"table">> => uPath = "" /\ uMode = ""

\* a display whose session holds both signals, taken as ars_display
C19_Witness ==
    /\ upc = "done" /\ uRan = <<"table">> /\ uPath = "display"
    /\ ArsNamesDisplay /\ DefineHoldsResults /\ uMode = "ars_display"
-----------------------------------------------------------------------------
(* Properties of the gaps of a request.                                    *)

GapsOf(g) == Range(g.gaps)

\* C21: no gap is ever lost: the gaps of the graph a builder holds (from the
\* base answer, from normalization, from an augmentation answer) only grow
\* from step to step, and all of them are in the graph the request returns,
\* also when a later augmentation round fails.
C21_GapsNeverLost ==
    [][ /\ GapsOf(out) \subseteq GapsOf(out')
        /\ (pc # "done" /\ pc' = "done") => GapsOf(out) \subseteq GapsOf(resp') ]_vars
-----------------------------------------------------------------------------
(* Properties of _use_embed_model (SpecEmbed).                             *)

\* the model a build was given
GivenModel(b) == IF bArg[b] # "" THEN bArg[b] ELSE EmbedDefault

\* C22: of two builds running at the same time with different embed_model
\* arguments, each makes its embedding calls with the model it was given,
\* and when both have finished EMBED_MODEL is what it was before.
C22_NoStateSharedBetweenBuilds ==
    (bpc # <<>> /\ bArg[1] # bArg[2]) =>
        /\ \A b \in Builds : \A i \in 1..Len(bUsed[b]) : bUsed[b][i] = GivenModel(b)
        /\ (\A b \in Builds : bpc[b] = "done") => EMBED_MODEL = EmbedDefault
-----------------------------------------------------------------------------
(* Properties of the evidence of a request (SpecEvidence).                 *)

\* C24: for a table-cell request the prompts of the base round and of the
\* connectivity-repair round hold chunks of analysis-results (ARS/ARD) JSON
\* files only.
C24_CellRoundsSeeOnlyAnalysisResults ==
    vKind = "cell" =>
        \A i \in 1..Len(vLog) :
            vLog[i].round \in {"base", "repair"} =>
                \A c \in vLog[i].prompt : c.label = "ARS"

IsOk(f) == f.st = "ok"

\* the session without the files that cannot be read or decoded
Clean(sess) ==
    [ summary |-> "ok",
      adam    |-> SelectSeq(sess.adam, IsOk),
      sdtm    |-> SelectSeq(sess.sdtm, IsOk),
      crf     |-> IF IsOk(sess.crf) THEN sess.crf ELSE NoFile,
      proto   |-> IF IsOk(sess.proto) THEN sess.proto ELSE NoFile,
      titles  |-> sess.titles,
      usdm    |-> sess.usdm,
      ars     |-> SelectSeq(sess.ars, IsOk) ]

\* C28: a file that is missing or cannot be read or decoded never aborts the
\* collection: the collector raises nothing and returns exactly the pairs of
\* the readable files, none for the others.
C28_BrokenFilesAreSkipped ==
    [][ (vpc = "collect" /\ vpc' # "collect") =>
          /\ ~vRes'.err
          /\ vRes'.pairs = CollectorOf(vKind, vRound, Clean(dirs[vSess])).pairs ]_vars

\* C30: all rounds of a request read their evidence from the same session
\* directory, also when an upload creates a newer one between two rounds.
C30_OneSessionPerRequest ==
    \A i, j \in 1..Len(vLog) : vLog[i].sess = vLog[j].sess
-----------------------------------------------------------------------------
(* Properties of the augmentation rounds of a request (Spec).              *)

\* the graph holds an 'adam variable' node and no SDTM node
AdamWithoutSdtm(g) ==
    /\ \E k \in 1..Len(g.nodes) : g.nodes[k].type = "adam variable"
    /\ ~HasSdtmNodes(g.nodes)

SameGraph(g, h) ==
    /\ g.nodes = h.nodes /\ g.edges = h.edges /\ g.gaps = h.gaps
    /\ g.variable = h.variable /\ g.dataset = h.dataset

\* the backtrace retrieval, and with it the model call, is issued
BacktraceIssued == pc' = "retrieve" /\ stage' = "backtrace" /\ out' = out

\* _augment_backtrace_if_missing_sdtm returns its argument and calls nothing
BacktraceTerminal ==
    /\ pc' \in {"connect", "return"}
    /\ SameGraph(out', out)
    /\ stage' = stage /\ llm' = llm /\ exc' = exc /\ bres' = bres

NoSdtmLinkedToAdam(g) ==
    LET Ids(t) == { g.nodes[k].id : k \in { k \in 1..Len(g.nodes) : g.nodes[k].type = t } }
        sdtm == Ids("sdtm variable")
        adam == Ids("adam variable")
    IN  /\ sdtm # {}
        /\ ~\E k \in 1..Len(g.edges) :
               \/ g.edges[k].from \in sdtm /\ g.edges[k].to \in adam
               \/ g.edges[k].from \in adam /\ g.edges[k].to \in sdtm

\* C26: for a table-cell request the connectivity repair is issued exactly
\* when, after the base and backtrace rounds, SDTM variables exist and none is
\* linked to an ADaM variable, whatever 'variable' text the model echoed; and
\* it is never issued for a request that is not a cell request.
C26_RepairExactlyForUnlinkedSdtm ==
    [][ /\ (pc = "connect" /\ kind = "cell") =>
              ((pc' = "retrieve" /\ stage' = "repair") <=> NoSdtmLinkedToAdam(out))
        /\ (stage' = "repair" /\ stage # "repair") => kind = "cell" ]_vars
-----------------------------------------------------------------------------
(* More properties of the normalizer (SpecNorm).                           *)

IsPlaceholderType(t) == TypeNorm(t) \in {"", "target", "source", "concept", "variable"}

\* every node of g0 that goes into the node m of g1 has a placeholder type
OnlyPlaceholderTypes(m) ==
    \A k \in 1..Len(g0.nodes) :
        Strip(g0.nodes[k].id) = Strip(m.id) => IsPlaceholderType(g0.nodes[k].type)

\* a bare uppercase AD* token with no dot
BareAdToken(up) ==
    /\ StartsWith(up, LitAD) /\ ~Contains(up, <<".">>)
    /\ \A i \in 1..Len(up) : IsUpAlnum(up[i])

\* C27: whatever the kind of the request, a node whose type is absent or a
\* placeholder (target, source, concept, variable) leaves normalization with
\* the type of its id pattern: AD<dataset>.<variable> 'adam variable', a
\* two-letter domain.<variable> or an SDTM. prefix 'sdtm variable', a bare
\* AD* token 'adam dataset', an id with '|' 'tlf cell'.
C27_PlaceholderTypeFromIdPattern ==
    npc # "in" =>
        \A k \in 1..Len(g1.nodes) :
            LET m  == g1.nodes[k]
                up == Upper(Strip(m.id))
            IN  OnlyPlaceholderTypes(m) =>
                  /\ MatchAdamVar(up) => m.type = "adam variable"
                  /\ (MatchSdtmVar(up) \/ StartsWith(up, LitSdtmDot)) => m.type = "sdtm variable"
                  /\ BareAdToken(up) => m.type = "adam dataset"
                  /\ (Contains(up, <<"|">>) /\ ~MatchAdamVar(up) /\ ~MatchSdtmVar(up)
                         /\ ~StartsWith(up, LitSdtmDot) /\ ~BareAdToken(up))
                        => m.type = "tlf cell"
-----------------------------------------------------------------------------
(* Properties of _merge_graphs (SpecMerge).                                *)

\* the field value v of a base node is kept: unchanged, or filled when empty
FieldKept(v, w) == v # "" => w = v

\* C29: merging an augmentation graph into a normalized base graph is
\* monotone for the base: every base node is in the result with its id and
\* its non-empty field values, every base edge and every base gap is in the
\* result, and the result has the base's variable and dataset when these
\* are not empty.
C29_MergeIsMonotoneForBase ==
    mpc = "merged" =>
        /\ \A k \in 1..Len(mBase.nodes) :
              \E j \in 1..Len(mOut.nodes) :
                  /\ mOut.nodes[j].id = mBase.nodes[k].id
                  /\ FieldKept(mBase.nodes[k].type, mOut.nodes[j].type)
                  /\ FieldKept(mBase.nodes[k].label, mOut.nodes[j].label)
                  /\ FieldKept(mBase.nodes[k].explanation, mOut.nodes[j].explanation)
        /\ Range(mBase.edges) \subseteq Range(mOut.edges)
        /\ Range(mBase.gaps) \subseteq Range(mOut.gaps)
        /\ (mBase.variable # NoStr) => (mOut.variable = mBase.variable)
        /\ (mBase.dataset # NoStr) => (mOut.dataset = mBase.dataset)

=============================================================================
